---- MODULE Spec2Model ----
(***************************************************************************)
(* A state-machine model of the salon-receptionist scheduling core:        *)
(* slot calculation, overlap counting, booking-identifier generation and   *)
(* the book / update / cancel tools working on a per-tenant appointment    *)
(* collection.                                                             *)
(*                                                                         *)
(* Encodings.  A calendar date 'YYYY-MM-DD' is a day number (day 0 is a    *)
(* Sunday); a malformed date string is BadDate.  A time 'HH:mm' is the     *)
(* minute of the day 0..1439; a malformed time string is BadTime.  A       *)
(* dayjs date-time is an absolute minute, day * 1440 + minute.  A booking  *)
(* identifier 'BK-{tenant}-{YYYYMMDD}-{seq}' is the record of its tenant,  *)
(* its date and the sequence of decimal digits of its suffix.  An absent   *)
(* numeric setting is 0 (the code reads every setting as `x || default`).  *)
(***************************************************************************)
EXTENDS Integers, Sequences, FiniteSets, TLC

VARIABLES
  cfg,          \* tenant id -> tenant configuration (tenantLoader cache)
  now,          \* the clock: absolute minute
  uniqueIndex,  \* whether the booking_id unique index exists in MongoDB
  store,        \* tenant id -> the documents of {tenant}_appointments, in insertion order
  resp,         \* the last completed call: its name and result
  pc,           \* process -> position inside an in-flight bookAppointment call
  local,        \* process -> the locals of that call
  inp,          \* the arguments drawn for a pure function
  out           \* the value the pure function returned

vars == <<cfg, now, uniqueIndex, store, resp, pc, local, inp, out>>

-----------------------------------------------------------------------------
(* Program constants                                                       *)

DefaultSlotDuration == 30
DefaultStylists == 5
DefaultMaxConcurrent == 5
DefaultAdvanceDays == 30
DefaultCancellationHours == 24
PadWidth == 3
RecentDays == 7
MinNameLength == 2

MinutesPerDay == 24 * 60
BadDate == 0 - 1
BadTime == 0 - 1
None == 0 - 2

DayNames == <<"sunday", "monday", "tuesday", "wednesday", "thursday", "friday", "saturday">>

-----------------------------------------------------------------------------
(* Bounds                                                                  *)

MaxAppts == 2
NumProcs == 2
SeedCount == 999
MaxOverlapAppts == 2
MaxSlotAppts == 1
MaxCancelAppts == 1
MaxTicks == 1
MaxRaceAppts == 1
MaxUpdateAppts == 1
MaxLateAppts == 2
MaxValidateAppts == 1
MaxFindAppts == 1
MaxTenantAppts == 1
MaxServiceAppts == 1
MaxSnapAppts == 1
MaxFreeAppts == 2
MaxRejectAppts == 2
MaxLookupAppts == 2
MaxTermSteps == 6

Tenants == {"salon-a", "salon-b"}
Procs == 1..NumProcs

-----------------------------------------------------------------------------
(* Small helpers                                                           *)

\* JavaScript `x || d` on a numeric setting: 0 and absent both give d.
OrDefault(x, d) == IF x = 0 THEN d ELSE x

Range(s) == {s[i] : i \in 1..Len(s)}

\* dayjs(`${date} ${time}`): the absolute minute of a time of day on a date.
At(date, time) == date * MinutesPerDay + time

\* dayjs(date).format('dddd').toLowerCase()
DayName(date) == DayNames[(date % 7) + 1]

-----------------------------------------------------------------------------
(* tenantLoader.js                                                         *)

ClosedDay == [start |-> 0, end |-> 0, enabled |-> FALSE]

LoadTenantConfig(t) == cfg[t]

GetWorkingHours(t, dayName) ==
  IF dayName \in DOMAIN LoadTenantConfig(t).working_hours
  THEN LoadTenantConfig(t).working_hours[dayName]
  ELSE ClosedDay

\* config.services.find(s => s.id === serviceId && s.active) || null
GetService(t, serviceId) ==
  LET hits == {s \in LoadTenantConfig(t).services : s.id = serviceId /\ s.active}
  IN IF hits = {} THEN [id |-> "null", name |-> "", duration_minutes |-> 0, active |-> FALSE]
     ELSE CHOOSE s \in hits : TRUE

IsDateBlocked(t, date) == date \in LoadTenantConfig(t).blocked_dates


-----------------------------------------------------------------------------
(* validator.js                                                            *)

\* validatePhone: libphonenumber-js on the raw strings the model draws.  A
\* national Kuwaiti number is canonicalised to E.164.
ValidatePhone(phone) ==
  CASE phone = "+96599888777" -> [valid |-> TRUE, formatted |-> "+96599888777", error |-> ""]
    [] phone = "99888777"     -> [valid |-> TRUE, formatted |-> "+96599888777", error |-> ""]
    [] phone = "+96555512345" -> [valid |-> TRUE, formatted |-> "+96555512345", error |-> ""]
    [] phone = "55512345"     -> [valid |-> TRUE, formatted |-> "+96555512345", error |-> ""]
    [] phone = "+14155552671" -> [valid |-> FALSE, formatted |-> "", error |-> "phone_not_kuwaiti"]
    [] OTHER                  -> [valid |-> FALSE, formatted |-> "", error |-> "phone_invalid"]

\* dayjs().startOf('day'), as a day number
Today == now \div MinutesPerDay

ValidateDate(t, date) ==
  LET maxAdvanceDays == OrDefault(LoadTenantConfig(t).settings.advance_booking_days, DefaultAdvanceDays)
  IN CASE date = BadDate                -> [valid |-> FALSE, dayName |-> "", error |-> "date_invalid"]
       [] date < Today                  -> [valid |-> FALSE, dayName |-> "", error |-> "date_past"]
       [] date > Today + maxAdvanceDays -> [valid |-> FALSE, dayName |-> "", error |-> "date_too_far"]
       [] IsDateBlocked(t, date)        -> [valid |-> FALSE, dayName |-> "", error |-> "date_blocked"]
       [] OTHER                         -> [valid |-> TRUE, dayName |-> DayName(date), error |-> ""]

\* Variant of validateTime with a closed interval: the closing time is accepted.
ValidateTimeInclusive(t, time, dayName) ==
  LET workingHours == GetWorkingHours(t, dayName)
  IN CASE time = BadTime            -> [valid |-> FALSE, error |-> "time_invalid"]
       [] ~workingHours.enabled     -> [valid |-> FALSE, error |-> "salon_closed"]
       [] time < workingHours.start \/ time > workingHours.end
                                    -> [valid |-> FALSE, error |-> "outside_working_hours"]
       [] OTHER                     -> [valid |-> TRUE, error |-> ""]

ValidateTime(t, time, dayName) ==
  LET workingHours == GetWorkingHours(t, dayName)
  IN CASE time = BadTime            -> [valid |-> FALSE, error |-> "time_invalid"]
       [] ~workingHours.enabled     -> [valid |-> FALSE, error |-> "salon_closed"]
       [] time < workingHours.start \/ time >= workingHours.end
                                    -> [valid |-> FALSE, error |-> "outside_working_hours"]
       [] OTHER                     -> [valid |-> TRUE, error |-> ""]

ValidateService(t, serviceId) ==
  LET service == GetService(t, serviceId)
  IN IF service.id = "null"
     THEN [valid |-> FALSE, service |-> service, error |-> "service_unavailable"]
     ELSE [valid |-> TRUE, service |-> service, error |-> ""]

\* /^BK-[a-z0-9-]+-\d{8}-\d{3}$/ : the suffix must be exactly three digits.
ValidateBookingId(bookingId) ==
  IF bookingId.wellFormed /\ Len(bookingId.digits) = 3
  THEN [valid |-> TRUE, error |-> ""]
  ELSE [valid |-> FALSE, error |-> "booking_id_invalid"]

\* String.prototype.trim on a string held as its sequence of characters.
RECURSIVE TrimStart(_)
TrimStart(str) ==
  IF str # <<>> /\ Head(str) = " " THEN TrimStart(Tail(str)) ELSE str

RECURSIVE TrimEnd(_)
TrimEnd(str) ==
  IF str # <<>> /\ str[Len(str)] = " " THEN TrimEnd(SubSeq(str, 1, Len(str) - 1)) ELSE str

Trim(str) == TrimEnd(TrimStart(str))

\* Variant of validateBookingInput that stops at the first failing check.
ValidateBookingInputFirstError(t, req) ==
  LET phoneValidation == ValidatePhone(req.phone_number)
      dateValidation == ValidateDate(t, req.date)
      timeValidation == ValidateTime(t, req.time, dateValidation.dayName)
      serviceValidation == ValidateService(t, req.service_id)
      errors ==
        CASE ~phoneValidation.valid   -> <<phoneValidation.error>>
          [] ~dateValidation.valid    -> <<dateValidation.error>>
          [] ~timeValidation.valid    -> <<timeValidation.error>>
          [] ~serviceValidation.valid -> <<serviceValidation.error>>
          [] req.customer_name = <<>> \/ Len(Trim(req.customer_name)) < MinNameLength
                                      -> <<"name_required">>
          [] OTHER                    -> <<>>
  IN [valid |-> errors = <<>>,
      errors |-> errors,
      phone_number |-> phoneValidation.formatted,
      dayName |-> dateValidation.dayName,
      service |-> serviceValidation.service]

ValidateBookingInput(t, req) ==
  LET phoneValidation == ValidatePhone(req.phone_number)
      dateValidation == ValidateDate(t, req.date)
      timeValidation == ValidateTime(t, req.time, dateValidation.dayName)
      serviceValidation == ValidateService(t, req.service_id)
      errors ==
        (IF phoneValidation.valid THEN <<>> ELSE <<phoneValidation.error>>)
        \o (IF dateValidation.valid THEN <<>> ELSE <<dateValidation.error>>)
        \o (IF dateValidation.valid /\ ~timeValidation.valid THEN <<timeValidation.error>> ELSE <<>>)
        \o (IF serviceValidation.valid THEN <<>> ELSE <<serviceValidation.error>>)
        \o (IF req.customer_name = <<>> \/ Len(Trim(req.customer_name)) < MinNameLength THEN <<"name_required">> ELSE <<>>)
  IN [valid |-> errors = <<>>,
      errors |-> errors,
      phone_number |-> phoneValidation.formatted,
      dayName |-> dateValidation.dayName,
      service |-> serviceValidation.service]


-----------------------------------------------------------------------------
(* scheduler.js                                                            *)

\* Variant of the overlap condition on closed intervals: touching counts.
OverlapTestTouching(slotStart, slotEnd, aptStart, aptEnd) ==
  slotStart <= aptEnd /\ aptStart <= slotEnd

\* The overlap condition of countConcurrentBookings, on absolute minutes.
OverlapTest(slotStart, slotEnd, aptStart, aptEnd) ==
  \/ (slotStart >= aptStart /\ slotStart < aptEnd)
  \/ (slotEnd > aptStart /\ slotEnd <= aptEnd)
  \/ (slotStart <= aptStart /\ slotEnd >= aptEnd)

\* Every appointment is placed on the date of the query, whatever its own date.
RECURSIVE CountConcurrentBookings(_, _, _, _)
CountConcurrentBookings(time, duration, existingAppointments, date) ==
  IF existingAppointments = <<>> THEN 0
  ELSE LET apt == Head(existingAppointments)
           slotStart == At(date, time)
           slotEnd == slotStart + duration
           aptStart == At(date, apt.time)
           aptEnd == At(date, apt.end_time)
       IN (IF OverlapTest(slotStart, slotEnd, aptStart, aptEnd) THEN 1 ELSE 0)
          + CountConcurrentBookings(time, duration, Tail(existingAppointments), date)

\* Variant in which a cancelled appointment still counts.
IsActiveOrCancelled(apt) == apt.status \in {"confirmed", "pending", "cancelled"}

IsActive(apt) == apt.status \in {"confirmed", "pending"}

\* appointmentsCol.find({date, status: {$in: ['confirmed', 'pending']}}).toArray()
FindActiveOnDate(docs, date) ==
  SelectSeq(docs, LAMBDA apt : apt.date = date /\ IsActive(apt))

\* Variant of the slot loop that stops before the last fitting start time.
RECURSIVE GenerateSlotsExclusive(_, _, _)
GenerateSlotsExclusive(currentTime, lastSlotTime, slotDuration) ==
  IF currentTime < lastSlotTime
  THEN <<currentTime % MinutesPerDay>>
       \o GenerateSlotsExclusive(currentTime + slotDuration, lastSlotTime, slotDuration)
  ELSE <<>>

\* The while loop of getAvailableSlots: currentTime runs from the opening time
\* in steps of slotDuration while
\* (currentTime.isBefore(lastSlotTime) || currentTime.isSame(lastSlotTime)).
RECURSIVE GenerateSlots(_, _, _)
GenerateSlots(currentTime, lastSlotTime, slotDuration) ==
  IF currentTime <= lastSlotTime
  THEN <<currentTime % MinutesPerDay>>
       \o GenerateSlots(currentTime + slotDuration, lastSlotTime, slotDuration)
  ELSE <<>>

SlotCandidates(t, date, serviceDuration) ==
  LET workingHours == GetWorkingHours(t, DayName(date))
      slotDuration == OrDefault(LoadTenantConfig(t).settings.slot_duration_minutes, DefaultSlotDuration)
      lastSlotTime == At(date, workingHours.end) - serviceDuration
  IN GenerateSlots(At(date, workingHours.start), lastSlotTime, slotDuration)

RECURSIVE SlotCapacities(_, _, _, _, _)
SlotCapacities(slots, serviceDuration, existingAppointments, date, numberOfStylists) ==
  IF slots = <<>> THEN <<>>
  ELSE <<[time |-> Head(slots),
          available_slots |-> numberOfStylists
             - CountConcurrentBookings(Head(slots), serviceDuration, existingAppointments, date)]>>
       \o SlotCapacities(Tail(slots), serviceDuration, existingAppointments, date, numberOfStylists)

\* Variant of getAvailableSlots without the early return on a closed day.
GetAvailableSlotsAnyDay(t, docs, date, serviceDuration) ==
  LET numberOfStylists == OrDefault(LoadTenantConfig(t).settings.number_of_stylists, DefaultStylists)
      slots == SlotCandidates(t, date, serviceDuration)
      existingAppointments == FindActiveOnDate(docs, date)
  IN SelectSeq(SlotCapacities(slots, serviceDuration, existingAppointments, date, numberOfStylists),
               LAMBDA slot : slot.available_slots > 0)

\* Variant of getAvailableSlots that keeps back what the call before it returned
\* for the same date and duration.
GetAvailableSlotsOnce(t, docs, date, serviceDuration) ==
  IF \/ (out.op = "slots" /\ out.date = date /\ out.serviceDuration = serviceDuration)
     \/ ~GetWorkingHours(t, DayName(date)).enabled
  THEN <<>>
  ELSE GetAvailableSlotsAnyDay(t, docs, date, serviceDuration)

GetAvailableSlots(t, docs, date, serviceDuration) ==
  LET workingHours == GetWorkingHours(t, DayName(date))
      numberOfStylists == OrDefault(LoadTenantConfig(t).settings.number_of_stylists, DefaultStylists)
      slots == SlotCandidates(t, date, serviceDuration)
      existingAppointments == FindActiveOnDate(docs, date)
  IN IF ~workingHours.enabled THEN <<>>
     ELSE SelectSeq(SlotCapacities(slots, serviceDuration, existingAppointments, date, numberOfStylists),
                    LAMBDA slot : slot.available_slots > 0)

IsSlotAvailable(t, docs, date, time, duration) ==
  LET maxConcurrentBookings == OrDefault(LoadTenantConfig(t).settings.max_concurrent_bookings, DefaultMaxConcurrent)
      existingAppointments == FindActiveOnDate(docs, date)
      concurrentCount == CountConcurrentBookings(time, duration, existingAppointments, date)
  IN IF concurrentCount >= maxConcurrentBookings
     THEN [available |-> FALSE, available_slots |-> 0, error |-> "no_stylist_available"]
     ELSE [available |-> TRUE, available_slots |-> maxConcurrentBookings - concurrentCount, error |-> ""]

\* Variant of calculateEndTime that adds the slot duration, whatever the service.
CalculateEndTimeOfSlot(startTime, duration) == (startTime + DefaultSlotDuration) % MinutesPerDay

\* dayjs(startTime, 'HH:mm').add(duration, 'minute').format('HH:mm'): the day is dropped.
CalculateEndTime(startTime, duration) == (startTime + duration) % MinutesPerDay

\* Number.prototype.toString: the decimal digits of a positive integer.
RECURSIVE ToDigits(_)
ToDigits(n) == IF n < 10 THEN <<n>> ELSE ToDigits(n \div 10) \o <<n % 10>>

\* String.prototype.padStart(width, '0')
RECURSIVE PadStart(_, _)
PadStart(digits, width) ==
  IF Len(digits) >= width THEN digits ELSE PadStart(<<0>> \o digits, width)

\* parseInt on a string of decimal digits
RECURSIVE ParseInt(_)
ParseInt(digits) ==
  IF digits = <<>> THEN 0
  ELSE ParseInt(SubSeq(digits, 1, Len(digits) - 1)) * 10 + digits[Len(digits)]

\* String comparison of two identifiers with the same prefix: their suffixes,
\* character by character; a proper prefix sorts first.
RECURSIVE StrLess(_, _)
StrLess(a, b) ==
  CASE b = <<>> -> FALSE
    [] a = <<>> -> TRUE
    [] Head(a) # Head(b) -> Head(a) < Head(b)
    [] OTHER -> StrLess(Tail(a), Tail(b))

\* find({booking_id: {$regex: '^' + prefix}}).sort({booking_id: -1}).limit(1):
\* the suffix of the greatest identifier in string order, <<>> when none matches.
RECURSIVE GreatestSuffix(_, _, _, _, _)
GreatestSuffix(docs, t, date, lo, hi) ==
  IF lo > hi THEN <<>>
  ELSE IF lo = hi
  THEN LET id == docs[lo].booking_id
       IN IF id.wellFormed /\ id.tenant = t /\ id.date = date THEN id.digits ELSE <<>>
  ELSE LET mid == (lo + hi) \div 2
           left == GreatestSuffix(docs, t, date, lo, mid)
           right == GreatestSuffix(docs, t, date, mid + 1, hi)
       IN IF StrLess(left, right) THEN right ELSE left

GenerateBookingId(t, docs, date) ==
  LET last == GreatestSuffix(docs, t, date, 1, Len(docs))
      sequence == IF last = <<>> THEN 1 ELSE ParseInt(last) + 1
  IN [wellFormed |-> TRUE, tenant |-> t, date |-> date,
      digits |-> PadStart(ToDigits(sequence), PadWidth)]


-----------------------------------------------------------------------------
(* The appointment collection (MongoDB)                                    *)

NoId == [wellFormed |-> FALSE, tenant |-> "", date |-> 0, digits |-> <<>>]

\* insertOne: with the unique index on booking_id a second document with the
\* same identifier is refused (E11000); without it the document is stored.
InsertOne(docs, doc) ==
  IF uniqueIndex /\ \E i \in 1..Len(docs) : docs[i].booking_id = doc.booking_id
  THEN [ok |-> FALSE, docs |-> docs]
  ELSE [ok |-> TRUE, docs |-> Append(docs, doc)]

\* The position of the first document matching {booking_id, tenant_id}; 0 when none.
FindOneIndex(docs, bookingId, t) ==
  LET hits == {i \in 1..Len(docs) : docs[i].booking_id = bookingId /\ docs[i].tenant_id = t}
  IN IF hits = {} THEN 0 ELSE CHOOSE i \in hits : \A j \in hits : i <= j

\* updateOne({booking_id, tenant_id}, {$set: updates}): the first match is changed.
UpdateOne(docs, bookingId, t, updates) ==
  LET k == FindOneIndex(docs, bookingId, t)
  IN IF k = 0 THEN docs
     ELSE [docs EXCEPT ![k] = [f \in DOMAIN docs[k] |->
                                 IF f \in DOMAIN updates THEN updates[f] ELSE docs[k][f]]]

-----------------------------------------------------------------------------
(* tools/bookAppointment.js                                                *)

\* Lines 29-47: validation, then the availability check on the documents read.
BookCheck(t, docs, req) ==
  LET validation == ValidateBookingInput(t, req)
      slotCheck == IsSlotAvailable(t, docs, req.date, req.time, validation.service.duration_minutes)
  IN CASE ~validation.valid    -> [ok |-> FALSE, errors |-> validation.errors]
       [] ~slotCheck.available -> [ok |-> FALSE, errors |-> <<slotCheck.error>>]
       [] OTHER                -> [ok |-> TRUE, errors |-> <<>>]

\* Variant of the appointment object that starts in status pending.
BuildAppointmentPending(t, docs, req) ==
  LET validation == ValidateBookingInput(t, req)
      service == validation.service
  IN [booking_id |-> GenerateBookingId(t, docs, req.date),
      tenant_id |-> t,
      customer_name |-> Trim(req.customer_name),
      phone_number |-> validation.phone_number,
      service_id |-> req.service_id,
      service_name |-> service.name,
      service_duration |-> service.duration_minutes,
      date |-> req.date,
      time |-> req.time,
      end_time |-> CalculateEndTime(req.time, service.duration_minutes),
      status |-> "pending",
      notes |-> Trim(req.notes),
      cancelled_at |-> None,
      cancellation_reason |-> <<>>]

\* Lines 49-73: the appointment object, with the identifier generated from the documents read.
BuildAppointment(t, docs, req) ==
  LET validation == ValidateBookingInput(t, req)
      service == validation.service
  IN [booking_id |-> GenerateBookingId(t, docs, req.date),
      tenant_id |-> t,
      customer_name |-> Trim(req.customer_name),
      phone_number |-> validation.phone_number,
      service_id |-> req.service_id,
      service_name |-> service.name,
      service_duration |-> service.duration_minutes,
      date |-> req.date,
      time |-> req.time,
      end_time |-> CalculateEndTime(req.time, service.duration_minutes),
      status |-> "confirmed",
      notes |-> Trim(req.notes),
      cancelled_at |-> None,
      cancellation_reason |-> <<>>]

\* One whole call with no other call in between: check, identifier, insert;
\* an insert that throws is caught and reported as the generic booking error.
BookResult(t, docs, req) ==
  LET check == BookCheck(t, docs, req)
      appointment == BuildAppointment(t, docs, req)
      ins == InsertOne(docs, appointment)
  IN CASE ~check.ok -> [ok |-> FALSE, errors |-> check.errors, booking_id |-> NoId, docs |-> docs]
       [] ~ins.ok   -> [ok |-> FALSE, errors |-> <<"booking_error_try_again">>, booking_id |-> NoId, docs |-> docs]
       [] OTHER     -> [ok |-> TRUE, errors |-> <<>>, booking_id |-> appointment.booking_id, docs |-> ins.docs]

\* Variant of bookAppointment with one appointment collection for all tenants.
BookAppointmentShared(t, req) ==
  /\ LET r == BookResult(t, store[t], req)
     IN /\ store' = [u \in Tenants |-> IF r.ok THEN Append(store[u], r.docs[Len(r.docs)])
                                       ELSE store[u]]
        /\ resp' = [op |-> "book", tenant |-> t, ok |-> r.ok,
                    errors |-> r.errors, booking_id |-> r.booking_id]
  /\ UNCHANGED <<cfg, now, uniqueIndex, pc, local, inp, out>>

BookAppointment(t, req) ==
  /\ LET r == BookResult(t, store[t], req)
     IN /\ store' = [store EXCEPT ![t] = r.docs]
        /\ resp' = [op |-> "book", tenant |-> t, ok |-> r.ok,
                    errors |-> r.errors, booking_id |-> r.booking_id]
  /\ UNCHANGED <<cfg, now, uniqueIndex, pc, local, inp, out>>


-----------------------------------------------------------------------------
(* tools/updateAppointment.js                                              *)

\* find({date, status in confirmed/pending, booking_id: {$ne: excludeBookingId}})
FindActiveOnDateExcluding(docs, date, excludeBookingId) ==
  SelectSeq(docs, LAMBDA apt : apt.date = date /\ IsActive(apt)
                               /\ apt.booking_id # excludeBookingId)

\* The first overlapping appointment makes the slot unavailable.
IsSlotAvailableExcluding(t, docs, date, time, duration, excludeBookingId) ==
  LET existingAppointments == FindActiveOnDateExcluding(docs, date, excludeBookingId)
      slotStart == At(date, time)
      slotEnd == slotStart + duration
  IN IF \E i \in 1..Len(existingAppointments) :
          OverlapTest(slotStart, slotEnd,
                      At(existingAppointments[i].date, existingAppointments[i].time),
                      At(existingAppointments[i].date, existingAppointments[i].end_time))
     THEN [available |-> FALSE, error |-> "slot_already_booked"]
     ELSE [available |-> TRUE, error |-> ""]

HasNewDate(req) == req.new_date # None
HasNewTime(req) == req.new_time # None
HasNewService(req) == req.new_service_id # ""

\* Lines 121-189 on the appointment found: the error the call returns, or the
\* $set document.  getServiceDuration throws on an unknown service, and the
\* throw is caught as the generic update error.
UpdatePlan(t, docs, appointment, req) ==
  LET targetDate == IF HasNewDate(req) THEN req.new_date ELSE appointment.date
      targetTime == IF HasNewTime(req) THEN req.new_time ELSE appointment.time
      newService == ValidateService(t, req.new_service_id)
      serviceDuration == IF HasNewService(req) THEN newService.service.duration_minutes
                         ELSE appointment.service_duration
      dateValidation == ValidateDate(t, req.new_date)
      timeValidation == ValidateTime(t, targetTime, dateValidation.dayName)
      slotCheck == IsSlotAvailableExcluding(t, docs, targetDate, targetTime, serviceDuration,
                                            req.booking_id)
      moving == HasNewDate(req) \/ HasNewTime(req)
      dateUpdates == IF moving /\ HasNewDate(req) THEN [date |-> req.new_date] ELSE <<>>
      timeUpdates == IF moving /\ HasNewTime(req) THEN [time |-> req.new_time] ELSE <<>>
      endUpdates == IF moving THEN [end_time |-> CalculateEndTime(targetTime, serviceDuration)] ELSE <<>>
      serviceUpdates ==
        IF HasNewService(req)
        THEN [service_id |-> req.new_service_id,
              service_name |-> newService.service.name,
              service_duration |-> newService.service.duration_minutes,
              end_time |-> CalculateEndTime(targetTime, newService.service.duration_minutes)]
        ELSE <<>>
      notesUpdates == IF req.has_notes THEN [notes |-> Trim(req.new_notes)] ELSE <<>>
  IN CASE moving /\ HasNewService(req) /\ ~newService.valid
            -> [ok |-> FALSE, error |-> "update_error", updates |-> <<>>]
       [] moving /\ HasNewDate(req) /\ ~dateValidation.valid
            -> [ok |-> FALSE, error |-> dateValidation.error, updates |-> <<>>]
       [] moving /\ HasNewDate(req) /\ ~timeValidation.valid
            -> [ok |-> FALSE, error |-> timeValidation.error, updates |-> <<>>]
       [] moving /\ ~slotCheck.available
            -> [ok |-> FALSE, error |-> slotCheck.error, updates |-> <<>>]
       [] HasNewService(req) /\ ~newService.valid
            -> [ok |-> FALSE, error |-> newService.error, updates |-> <<>>]
       [] OTHER
            -> [ok |-> TRUE, error |-> "",
                updates |-> notesUpdates @@ serviceUpdates @@ endUpdates @@ timeUpdates @@ dateUpdates]

\* Variant of updateAppointment that writes new_notes before the checks of
\* the new date, time and service.
UpdateResultNotesFirst(t, docs, req) ==
  LET k == FindOneIndex(docs, req.booking_id, t)
      plan == UpdatePlan(t, docs, docs[k], req)
      noted == IF req.has_notes
               THEN UpdateOne(docs, req.booking_id, t, [notes |-> Trim(req.new_notes)])
               ELSE docs
  IN CASE ~ValidateBookingId(req.booking_id).valid
            -> [ok |-> FALSE, error |-> "booking_id_invalid", docs |-> docs]
       [] k = 0
            -> [ok |-> FALSE, error |-> "booking_not_found", docs |-> docs]
       [] docs[k].status = "cancelled"
            -> [ok |-> FALSE, error |-> "cannot_update_cancelled", docs |-> docs]
       [] ~plan.ok
            -> [ok |-> FALSE, error |-> plan.error, docs |-> noted]
       [] OTHER
            -> [ok |-> TRUE, error |-> "", docs |-> UpdateOne(docs, req.booking_id, t, plan.updates)]

\* One whole call with no other call in between.
UpdateResult(t, docs, req) ==
  LET k == FindOneIndex(docs, req.booking_id, t)
      plan == UpdatePlan(t, docs, docs[k], req)
  IN CASE ~ValidateBookingId(req.booking_id).valid
            -> [ok |-> FALSE, error |-> "booking_id_invalid", docs |-> docs]
       [] k = 0
            -> [ok |-> FALSE, error |-> "booking_not_found", docs |-> docs]
       [] docs[k].status = "cancelled"
            -> [ok |-> FALSE, error |-> "cannot_update_cancelled", docs |-> docs]
       [] ~plan.ok
            -> [ok |-> FALSE, error |-> plan.error, docs |-> docs]
       [] OTHER
            -> [ok |-> TRUE, error |-> "", docs |-> UpdateOne(docs, req.booking_id, t, plan.updates)]

UpdateAppointment(t, req) ==
  /\ LET r == UpdateResult(t, store[t], req)
     IN /\ store' = [store EXCEPT ![t] = r.docs]
        /\ resp' = [op |-> "update", tenant |-> t, ok |-> r.ok,
                    errors |-> IF r.ok THEN <<>> ELSE <<r.error>>, booking_id |-> req.booking_id]
  /\ UNCHANGED <<cfg, now, uniqueIndex, pc, local, inp, out>>

-----------------------------------------------------------------------------
(* tools/cancelAppointment.js                                              *)

\* Variant of cancelAppointment without the check for a cancelled appointment.
CancelResultAgain(t, docs, req) ==
  LET k == FindOneIndex(docs, req.booking_id, t)
      appointment == docs[k]
      cancellationHours == OrDefault(LoadTenantConfig(t).settings.cancellation_hours_notice,
                                     DefaultCancellationHours)
      minutesUntilAppointment == At(appointment.date, appointment.time) - now
  IN CASE ~ValidateBookingId(req.booking_id).valid
            -> [ok |-> FALSE, error |-> "booking_id_invalid", docs |-> docs]
       [] k = 0
            -> [ok |-> FALSE, error |-> "booking_not_found", docs |-> docs]
       [] minutesUntilAppointment < 0
            -> [ok |-> FALSE, error |-> "appointment_already_past", docs |-> docs]
       [] minutesUntilAppointment < cancellationHours * 60
            -> [ok |-> FALSE, error |-> "insufficient_notice", docs |-> docs]
       [] OTHER
            -> [ok |-> TRUE, error |-> "",
                docs |-> UpdateOne(docs, req.booking_id, t,
                                   [status |-> "cancelled", cancelled_at |-> now,
                                    cancellation_reason |-> Trim(req.cancellation_reason)])]

\* hoursUntilAppointment < x, with the difference taken in minutes
CancelResult(t, docs, req) ==
  LET k == FindOneIndex(docs, req.booking_id, t)
      appointment == docs[k]
      cancellationHours == OrDefault(LoadTenantConfig(t).settings.cancellation_hours_notice,
                                     DefaultCancellationHours)
      minutesUntilAppointment == At(appointment.date, appointment.time) - now
  IN CASE ~ValidateBookingId(req.booking_id).valid
            -> [ok |-> FALSE, error |-> "booking_id_invalid", docs |-> docs]
       [] k = 0
            -> [ok |-> FALSE, error |-> "booking_not_found", docs |-> docs]
       [] appointment.status = "cancelled"
            -> [ok |-> FALSE, error |-> "already_cancelled", docs |-> docs]
       [] minutesUntilAppointment < 0
            -> [ok |-> FALSE, error |-> "appointment_already_past", docs |-> docs]
       [] minutesUntilAppointment < cancellationHours * 60
            -> [ok |-> FALSE, error |-> "insufficient_notice", docs |-> docs]
       [] OTHER
            -> [ok |-> TRUE, error |-> "",
                docs |-> UpdateOne(docs, req.booking_id, t,
                                   [status |-> "cancelled", cancelled_at |-> now,
                                    cancellation_reason |-> Trim(req.cancellation_reason)])]

CancelAppointment(t, req) ==
  /\ LET r == CancelResult(t, store[t], req)
     IN /\ store' = [store EXCEPT ![t] = r.docs]
        /\ resp' = [op |-> "cancel", tenant |-> t, ok |-> r.ok,
                    errors |-> IF r.ok THEN <<>> ELSE <<r.error>>, booking_id |-> req.booking_id]
  /\ UNCHANGED <<cfg, now, uniqueIndex, pc, local, inp, out>>


-----------------------------------------------------------------------------
(* utils/responseFormatter.js and tools/findAppointment.js                 *)

\* formatDateArabic: the date written DD/MM/YYYY.
FormatDateArabic(date) == [format |-> "DD/MM/YYYY", day |-> date]

\* getStatusArabic
GetStatusArabic(status) ==
  CASE status = "confirmed" -> "status_ar_confirmed"
    [] status = "pending"   -> "status_ar_pending"
    [] status = "cancelled" -> "status_ar_cancelled"
    [] OTHER                -> status

FormatAppointmentDetails(appointment) ==
  [booking_id |-> appointment.booking_id,
   customer_name |-> appointment.customer_name,
   phone_number |-> appointment.phone_number,
   service |-> appointment.service_name,
   date |-> FormatDateArabic(appointment.date),
   time |-> appointment.time,
   end_time |-> appointment.end_time,
   status |-> GetStatusArabic(appointment.status),
   notes |-> appointment.notes]

\* sort({date: -1, time: -1}): later dates first, later times first within a
\* date; documents with the same date and time stay in the order of the collection.
SortLaterFirst(docs) ==
  LET n == Len(docs)
      Before(j, i) ==
        \/ docs[j].date > docs[i].date
        \/ docs[j].date = docs[i].date /\ docs[j].time > docs[i].time
        \/ docs[j].date = docs[i].date /\ docs[j].time = docs[i].time /\ j < i
      rank == [i \in 1..n |-> Cardinality({j \in 1..n : Before(j, i)}) + 1]
  IN [r \in 1..n |-> docs[CHOOSE i \in 1..n : rank[i] = r]]

\* Asia/Kuwait is three hours ahead of UTC all year.
KuwaitUtcOffset == 3 * 60

\* new Date().toISOString().split('T')[0]: the calendar date of the current
\* instant in UTC, while stored dates and `now` are Kuwait dates and times.
UtcDate == (now - KuwaitUtcOffset) \div MinutesPerDay

\* A request carries booking_id (NoId when absent) and phone_number ("" when absent).
FindResult(t, docs, req) ==
  LET k == FindOneIndex(docs, req.booking_id, t)
      phoneValidation == ValidatePhone(req.phone_number)
      minDate == UtcDate - RecentDays
      appointments ==
        SortLaterFirst(SelectSeq(docs, LAMBDA apt : /\ apt.tenant_id = t
                                                    /\ apt.phone_number = phoneValidation.formatted
                                                    /\ apt.date >= minDate))
  IN CASE req.booking_id # NoId /\ ~ValidateBookingId(req.booking_id).valid
            -> [ok |-> FALSE, errors |-> <<"booking_id_invalid">>, appointments |-> <<>>]
       [] req.booking_id # NoId /\ k = 0
            -> [ok |-> FALSE, errors |-> <<"booking_not_found">>, appointments |-> <<>>]
       [] req.booking_id # NoId
            -> [ok |-> TRUE, errors |-> <<>>, appointments |-> <<FormatAppointmentDetails(docs[k])>>]
       [] req.phone_number # "" /\ ~phoneValidation.valid
            -> [ok |-> FALSE, errors |-> <<phoneValidation.error>>, appointments |-> <<>>]
       [] req.phone_number # "" /\ appointments = <<>>
            -> [ok |-> FALSE, errors |-> <<>>, appointments |-> <<>>]
       [] req.phone_number # ""
            -> [ok |-> TRUE, errors |-> <<>>,
                appointments |-> [i \in 1..Len(appointments) |->
                                    FormatAppointmentDetails(appointments[i])]]
       [] OTHER
            -> [ok |-> FALSE, errors |-> <<"booking_id_or_phone_required">>, appointments |-> <<>>]

FindAppointment(t, req) ==
  /\ LET r == FindResult(t, store[t], req)
     IN resp' = [op |-> "find", tenant |-> t, ok |-> r.ok, errors |-> r.errors,
                 booking_id |-> req.booking_id, appointments |-> r.appointments]
  /\ UNCHANGED <<cfg, now, uniqueIndex, store, pc, local, inp, out>>

-----------------------------------------------------------------------------
(* Tenant configurations and requests the model draws                      *)

OpenHours == [start |-> 9 * 60, end |-> 10 * 60, enabled |-> TRUE]

\* Wednesday and Thursday open 09:00-10:00, Friday disabled, the other days absent.
WeekHours == [wednesday |-> OpenHours, thursday |-> OpenHours,
              friday |-> [start |-> 9 * 60, end |-> 10 * 60, enabled |-> FALSE]]

ServiceList == {[id |-> "SRV-30", name |-> "Haircut", duration_minutes |-> 30, active |-> TRUE],
                [id |-> "SRV-60", name |-> "Colour", duration_minutes |-> 60, active |-> TRUE],
                [id |-> "SRV-OLD", name |-> "Perm", duration_minutes |-> 30, active |-> FALSE]}

Settings(slot, stylists, maxConcurrent, notice) ==
  [slot_duration_minutes |-> slot, number_of_stylists |-> stylists,
   max_concurrent_bookings |-> maxConcurrent, cancellation_hours_notice |-> notice,
   advance_booking_days |-> 0]

TenantConfig(hours, settings) ==
  [working_hours |-> hours, services |-> ServiceList, settings |-> settings, blocked_dates |-> {7}]

\* Both capacity settings 1; number_of_stylists 1 with max_concurrent_bookings absent.
CfgMatched == TenantConfig(WeekHours, Settings(30, 1, 1, 1))
CfgStylistsOnly == TenantConfig(WeekHours, Settings(30, 1, 0, 1))
\* Both capacity settings 2.
CfgTwoStylists == TenantConfig(WeekHours, Settings(30, 2, 2, 1))

\* Wednesday of week 0 (day 3) at 08:00.
StartOfModelTime == 3 * MinutesPerDay + 8 * 60

Name == <<"S", "a", "r", "a">>

BookRequest(date, time, serviceId) ==
  [customer_name |-> Name, phone_number |-> "+96599888777", service_id |-> serviceId,
   date |-> date, time |-> time, notes |-> <<>>]

\* Valid requests for today, and one request per validation failure:
\* a disabled day, a start at closing time, an inactive service.
BookRequests ==
  {BookRequest(d, tm, sv) : d \in {3}, tm \in {9 * 60, 9 * 60 + 30}, sv \in {"SRV-30", "SRV-60"}}
  \cup {BookRequest(5, 9 * 60, "SRV-30"), BookRequest(3, 10 * 60, "SRV-30"),
        BookRequest(3, 9 * 60, "SRV-OLD")}

StoredIds(t) == {store[t][i].booking_id : i \in 1..Len(store[t])}

UpdateRequests(t) ==
  {[booking_id |-> id, new_date |-> d, new_time |-> tm, new_service_id |-> sv,
    has_notes |-> FALSE, new_notes |-> <<>>] :
     id \in StoredIds(t), d \in {None, 4}, tm \in {None, 9 * 60 + 30},
     sv \in {"", "SRV-60"}}

CancelRequests(t) == {[booking_id |-> id, cancellation_reason |-> <<>>] : id \in StoredIds(t)}

NoResp == [op |-> "none"]
NoLocal == [op |-> "none"]
NoInput == [op |-> "none"]
NoOutput == [op |-> "none"]

-----------------------------------------------------------------------------
(* Spec: calls made one at a time on tenant salon-a                        *)

InitIdle ==
  /\ now = StartOfModelTime
  /\ resp = NoResp
  /\ pc = [p \in Procs |-> "idle"]
  /\ local = [p \in Procs |-> NoLocal]
  /\ inp = NoInput
  /\ out = NoOutput

Init ==
  /\ InitIdle
  /\ \E c \in {CfgMatched, CfgStylistsOnly, CfgTwoStylists} : cfg = [t \in Tenants |-> c]
  /\ uniqueIndex = TRUE
  /\ store = [t \in Tenants |-> <<>>]

Book == \E req \in BookRequests : Len(store["salon-a"]) < MaxAppts /\ BookAppointment("salon-a", req)
Update == \E req \in UpdateRequests("salon-a") : UpdateAppointment("salon-a", req)
Cancel == \E req \in CancelRequests("salon-a") : CancelAppointment("salon-a", req)

Next == Book \/ Update \/ Cancel

Spec == Init /\ [][Next]_vars


-----------------------------------------------------------------------------
(* SpecConc: bookAppointment calls of several requests in flight at once.  *)
(* A call runs between its awaits without interruption; each await is one  *)
(* operation of the collection, and other calls may run before it.         *)

ConcTenant == "salon-a"

ConcRequests ==
  {BookRequest(3, tm, sv) : tm \in {9 * 60, 9 * 60 + 30}, sv \in {"SRV-30", "SRV-60"}}
  \cup {BookRequest(5, 9 * 60, "SRV-30")}

\* The call arrives (bookAppointment line 17).
ConcCall(p, req) ==
  /\ pc[p] = "idle"
  /\ pc' = [pc EXCEPT ![p] = "check"]
  /\ local' = [local EXCEPT ![p] = [op |-> "book", req |-> req, conflicts |-> 0]]
  /\ UNCHANGED <<cfg, now, uniqueIndex, store, resp, inp, out>>

\* Validation and the find of isSlotAvailable (lines 29-47).
ConcCheck(p) ==
  /\ pc[p] = "check"
  /\ LET check == BookCheck(ConcTenant, store[ConcTenant], local[p].req)
     IN IF check.ok
        THEN /\ pc' = [pc EXCEPT ![p] = "genid"]
             /\ local' = local
        ELSE /\ pc' = [pc EXCEPT ![p] = "done"]
             /\ local' = [local EXCEPT ![p] =
                            [op |-> "book", req |-> local[p].req, conflicts |-> 0, ok |-> FALSE,
                             errors |-> check.errors, booking_id |-> NoId]]
  /\ UNCHANGED <<cfg, now, uniqueIndex, store, resp, inp, out>>

\* The find of generateBookingId and the appointment object (lines 49-73).
ConcGenId(p) ==
  /\ pc[p] = "genid"
  /\ pc' = [pc EXCEPT ![p] = "insert"]
  /\ local' = [local EXCEPT ![p] =
                 [op |-> "book", req |-> local[p].req, conflicts |-> 0,
                  appointment |-> BuildAppointment(ConcTenant, store[ConcTenant], local[p].req)]]
  /\ UNCHANGED <<cfg, now, uniqueIndex, store, resp, inp, out>>

\* insertOne and the return (lines 75-85): a refused insert throws, and the
\* catch block returns the generic booking error.
ConcInsert(p) ==
  /\ pc[p] = "insert"
  /\ LET ins == InsertOne(store[ConcTenant], local[p].appointment)
     IN /\ store' = [store EXCEPT ![ConcTenant] = ins.docs]
        /\ local' = [local EXCEPT ![p] =
                       [op |-> "book", req |-> local[p].req,
                        conflicts |-> IF ins.ok THEN 0 ELSE 1,
                        ok |-> ins.ok,
                        errors |-> IF ins.ok THEN <<>> ELSE <<"booking_error_try_again">>,
                        booking_id |-> IF ins.ok THEN local[p].appointment.booking_id ELSE NoId]]
  /\ pc' = [pc EXCEPT ![p] = "done"]
  /\ UNCHANGED <<cfg, now, uniqueIndex, resp, inp, out>>

InitConc ==
  /\ InitIdle
  /\ cfg = [t \in Tenants |-> CfgMatched]
  /\ uniqueIndex \in BOOLEAN
  /\ store = [t \in Tenants |-> <<>>]

NextConc ==
  \E p \in Procs :
    \/ \E req \in ConcRequests : ConcCall(p, req)
    \/ ConcCheck(p)
    \/ ConcGenId(p)
    \/ ConcInsert(p)

SpecConc == InitConc /\ [][NextConc]_vars


-----------------------------------------------------------------------------
(* SpecWide: calls made one at a time on a tenant and date that already    *)
(* hold the identifiers 001..SeedCount, each booked and then cancelled.    *)

SeedAppointment(k) ==
  [booking_id |-> [wellFormed |-> TRUE, tenant |-> "salon-a", date |-> 3,
                   digits |-> PadStart(ToDigits(k), PadWidth)],
   tenant_id |-> "salon-a",
   customer_name |-> Name,
   phone_number |-> "+96599888777",
   service_id |-> "SRV-30",
   service_name |-> "Haircut",
   service_duration |-> 30,
   date |-> 3,
   time |-> 9 * 60,
   end_time |-> 9 * 60 + 30,
   status |-> "cancelled",
   notes |-> <<>>,
   cancelled_at |-> StartOfModelTime,
   cancellation_reason |-> <<>>]

WideRequests == {BookRequest(3, tm, sv) : tm \in {9 * 60, 9 * 60 + 30}, sv \in {"SRV-30", "SRV-60"}}

\* The identifiers of the last seeded appointment and of those booked since.
WideIds ==
  {store["salon-a"][i].booking_id : i \in (SeedCount..Len(store["salon-a"])) \ {0}}

WideUpdateRequests ==
  {[booking_id |-> id, new_date |-> None, new_time |-> tm, new_service_id |-> "",
    has_notes |-> FALSE, new_notes |-> <<>>] : id \in WideIds, tm \in {9 * 60, 9 * 60 + 30}}

InitWide ==
  /\ InitIdle
  /\ cfg = [t \in Tenants |-> CfgStylistsOnly]
  /\ uniqueIndex \in BOOLEAN
  /\ store = [t \in Tenants |->
                IF t = "salon-a" THEN [k \in 1..SeedCount |-> SeedAppointment(k)] ELSE <<>>]

WideBook ==
  \E req \in WideRequests :
    Len(store["salon-a"]) < SeedCount + MaxAppts /\ BookAppointment("salon-a", req)
WideUpdate == \E req \in WideUpdateRequests : UpdateAppointment("salon-a", req)
WideCancel ==
  \E id \in WideIds :
    CancelAppointment("salon-a", [booking_id |-> id, cancellation_reason |-> <<>>])

NextWide == WideBook \/ WideUpdate \/ WideCancel

SpecWide == InitWide /\ [][NextWide]_vars

-----------------------------------------------------------------------------
(* SpecOverlap: countConcurrentBookings applied to a drawn slot and drawn   *)
(* appointments of the same date.                                           *)

OverlapTimes == {10 * 60, 10 * 60 + 15, 10 * 60 + 30, 10 * 60 + 45, 11 * 60}
OverlapDurations == {15, 30, 45}
OverlapIntervals == {iv \in [time : OverlapTimes, end_time : OverlapTimes] : iv.time < iv.end_time}

OverlapInputs ==
  {[op |-> "count", time |-> s, duration |-> d, existingAppointments |-> apts, date |-> 3] :
     s \in OverlapTimes, d \in OverlapDurations,
     apts \in UNION {[1..n -> OverlapIntervals] : n \in 0..MaxOverlapAppts}}

InitOverlap ==
  /\ now = StartOfModelTime
  /\ resp = NoResp
  /\ pc = [p \in Procs |-> "idle"]
  /\ local = [p \in Procs |-> NoLocal]
  /\ cfg = [t \in Tenants |-> CfgMatched]
  /\ uniqueIndex = TRUE
  /\ store = [t \in Tenants |-> <<>>]
  /\ inp \in OverlapInputs
  /\ out = NoOutput

Count ==
  /\ inp.op = "count"
  /\ out = NoOutput
  /\ out' = [op |-> "count",
             count |-> CountConcurrentBookings(inp.time, inp.duration,
                                               inp.existingAppointments, inp.date)]
  /\ UNCHANGED <<cfg, now, uniqueIndex, store, resp, pc, local, inp>>

NextOverlap == Count

SpecOverlap == InitOverlap /\ [][NextOverlap]_vars

-----------------------------------------------------------------------------
(* SpecSlots: getAvailableSlots on a tenant whose opening hours, closing    *)
(* hours and slot granularity are drawn, between bookings and reloads of    *)
(* the tenant's configuration.                                              *)

SlotOpenings == {9 * 60, 9 * 60 + 15}
SlotClosings == {10 * 60, 10 * 60 + 30}
SlotGranularities == {0, 15, 20, 30}
SlotServiceDurations == {30, 60}
\* Wednesday (open), Friday (an entry, open or not), Saturday (no entry).
SlotDates == {3, 5, 6}

SlotHours(opening, closing, fridayEnabled) ==
  [wednesday |-> [start |-> opening, end |-> closing, enabled |-> TRUE],
   friday |-> [start |-> opening, end |-> closing, enabled |-> fridayEnabled]]

\* An evening salon: open 23:00-23:45, slots every 15 minutes.
LateConfig == TenantConfig(SlotHours(23 * 60, 23 * 60 + 45, FALSE), Settings(15, 2, 2, 1))

\* number_of_stylists 1 and no max_concurrent_bookings.
OneStylistConfig == TenantConfig(SlotHours(9 * 60, 10 * 60, FALSE), Settings(30, 1, 0, 1))

SlotConfigs ==
  {TenantConfig(SlotHours(opening, closing, fridayEnabled), Settings(g, 2, 2, 1)) :
     opening \in SlotOpenings, closing \in SlotClosings,
     fridayEnabled \in BOOLEAN, g \in SlotGranularities}
  \cup {LateConfig, OneStylistConfig}

SlotBookRequests ==
  {BookRequest(date, tm, "SRV-30") : date \in {3, 5}, tm \in {9 * 60, 9 * 60 + 30}}
  \cup {BookRequest(3, 23 * 60 + 30, "SRV-60")}

InitSlots ==
  /\ InitIdle
  /\ \E c \in SlotConfigs : cfg = [t \in Tenants |-> c]
  /\ uniqueIndex = TRUE
  /\ store = [t \in Tenants |-> <<>>]

SlotsBook ==
  \E req \in SlotBookRequests :
    Len(store["salon-a"]) < MaxSlotAppts /\ BookAppointment("salon-a", req)

\* The tenant's file is edited (Friday opened or closed) and clearCache makes
\* the next loadTenantConfig read it.
ClearCache ==
  /\ cfg' = [t \in Tenants |-> [cfg[t] EXCEPT !.working_hours.friday.enabled = ~@]]
  /\ UNCHANGED <<now, uniqueIndex, store, resp, pc, local, inp, out>>

SlotsList ==
  \E date \in SlotDates, serviceDuration \in SlotServiceDurations :
    /\ out' = [op |-> "slots", tenant |-> "salon-a", date |-> date,
               serviceDuration |-> serviceDuration,
               workingHours |-> GetWorkingHours("salon-a", DayName(date)),
               slot_duration_minutes |-> LoadTenantConfig("salon-a").settings.slot_duration_minutes,
               candidates |-> SlotCandidates("salon-a", date, serviceDuration),
               slots |-> GetAvailableSlots("salon-a", store["salon-a"], date, serviceDuration)]
    \* what the call was given and read; repeated when the call before it was
    \* given and read the same
    /\ inp' = [op |-> "slots", tenant |-> "salon-a", date |-> date,
               serviceDuration |-> serviceDuration,
               config |-> LoadTenantConfig("salon-a"),
               appointments |-> store["salon-a"],
               repeated |-> /\ inp.op = "slots"
                            /\ inp.tenant = "salon-a"
                            /\ inp.date = date
                            /\ inp.serviceDuration = serviceDuration
                            /\ inp.config = LoadTenantConfig("salon-a")
                            /\ inp.appointments = store["salon-a"]]
    /\ UNCHANGED <<cfg, now, uniqueIndex, store, resp, pc, local>>

SlotCheckTimes == {9 * 60, 9 * 60 + 30, 23 * 60}

SlotsCheck ==
  \E date \in {3, 5}, time \in SlotCheckTimes, duration \in SlotServiceDurations :
    /\ inp' = [op |-> "check", tenant |-> "salon-a", date |-> date, time |-> time,
               duration |-> duration]
    /\ out' = [op |-> "check",
               result |-> IsSlotAvailable("salon-a", store["salon-a"], date, time, duration)]
    /\ UNCHANGED <<cfg, now, uniqueIndex, store, resp, pc, local>>

NextSlots == SlotsBook \/ ClearCache \/ SlotsList \/ SlotsCheck

SpecSlots == InitSlots /\ [][NextSlots]_vars

-----------------------------------------------------------------------------
(* SpecCancel: bookings, updates and cancellations made one at a time while *)
(* the clock advances, for tenants with different cancellation notices.     *)

\* The clock advances by an hour and a quarter at a time.
TickMinutes == 60 + 15

\* cancellation_hours_notice values, 0 included.
NoticeHours == {0, 1, 2, 24}

CancelBookRequests == {BookRequest(date, 9 * 60, "SRV-30") : date \in {3, 4}}

CancelUpdateRequests ==
  {[booking_id |-> id, new_date |-> None, new_time |-> 9 * 60 + 30, new_service_id |-> "",
    has_notes |-> hn, new_notes |-> <<"n">>] :
     id \in StoredIds("salon-a"), hn \in BOOLEAN}

CancelReasons == {<<>>, <<" ", "x">>}

CancelCancelRequests ==
  {[booking_id |-> id, cancellation_reason |-> reason] :
     id \in StoredIds("salon-a"), reason \in CancelReasons}

InitCancel ==
  /\ InitIdle
  /\ \E h \in NoticeHours : cfg = [t \in Tenants |-> TenantConfig(WeekHours, Settings(30, 2, 2, h))]
  /\ uniqueIndex = TRUE
  /\ store = [t \in Tenants |-> <<>>]

CancelBook ==
  \E req \in CancelBookRequests :
    Len(store["salon-a"]) < MaxCancelAppts /\ BookAppointment("salon-a", req)
CancelUpdate == \E req \in CancelUpdateRequests : UpdateAppointment("salon-a", req)
CancelCancel == \E req \in CancelCancelRequests : CancelAppointment("salon-a", req)

\* dayjs() returns a later instant.
Tick ==
  /\ now < StartOfModelTime + MaxTicks * TickMinutes
  /\ now' = now + TickMinutes
  /\ UNCHANGED <<cfg, uniqueIndex, store, resp, pc, local, inp, out>>

NextCancel == CancelBook \/ CancelUpdate \/ CancelCancel \/ Tick

SpecCancel == InitCancel /\ [][NextCancel]_vars

-----------------------------------------------------------------------------
(* SpecRace: updateAppointment and cancelAppointment calls in flight at     *)
(* once on the appointments of tenant salon-a.  A call runs between its     *)
(* awaits without interruption; each await is one operation of the          *)
(* collection, and other calls may run before it.                           *)

RaceBookRequests == {BookRequest(4, tm, "SRV-30") : tm \in {9 * 60, 9 * 60 + 30}}

RaceUpdateRequests ==
  {[booking_id |-> id, new_date |-> None, new_time |-> tm, new_service_id |-> sv,
    has_notes |-> hn, new_notes |-> <<"n">>] :
     id \in StoredIds("salon-a"), tm \in {None, 9 * 60 + 30}, sv \in {"", "SRV-60"},
     hn \in BOOLEAN}

RaceCancelRequests ==
  {[booking_id |-> id, cancellation_reason |-> <<>>] : id \in StoredIds("salon-a")}

RaceDone(p, op, ok, error) ==
  /\ pc' = [pc EXCEPT ![p] = "done"]
  /\ local' = [local EXCEPT ![p] = [op |-> op, ok |-> ok, error |-> error]]

\* A booking made while no other call is in flight.
RaceBook ==
  /\ \A p \in Procs : pc[p] \in {"idle", "done"}
  /\ \E req \in RaceBookRequests :
       Len(store["salon-a"]) < MaxRaceAppts /\ BookAppointment("salon-a", req)

\* updateAppointment up to its first write or find after findOne (lines 98-124):
\* the appointment is read and the call ends if it is missing or cancelled.
RaceUpdateFind(p, req) ==
  /\ pc[p] \in {"idle", "done"}
  /\ LET k == FindOneIndex(store["salon-a"], req.booking_id, "salon-a")
     IN CASE ~ValidateBookingId(req.booking_id).valid
               -> RaceDone(p, "update", FALSE, "booking_id_invalid")
          [] k = 0
               -> RaceDone(p, "update", FALSE, "booking_not_found")
          [] store["salon-a"][k].status = "cancelled"
               -> RaceDone(p, "update", FALSE, "cannot_update_cancelled")
          [] OTHER
               -> /\ pc' = [pc EXCEPT ![p] = "plan"]
                  /\ local' = [local EXCEPT ![p] =
                                 [op |-> "update", req |-> req,
                                  appointment |-> store["salon-a"][k]]]
  /\ UNCHANGED <<cfg, now, uniqueIndex, store, resp, inp, out>>

\* Lines 126-189: the validations, the find of isSlotAvailableExcluding and
\* the $set document, computed from the appointment read before.
RaceUpdatePlan(p) ==
  /\ pc[p] = "plan"
  /\ LET plan == UpdatePlan("salon-a", store["salon-a"], local[p].appointment, local[p].req)
     IN IF plan.ok
        THEN /\ pc' = [pc EXCEPT ![p] = "write"]
             /\ local' = [local EXCEPT ![p] =
                            [op |-> "update", req |-> local[p].req, updates |-> plan.updates]]
        ELSE RaceDone(p, "update", FALSE, plan.error)
  /\ UNCHANGED <<cfg, now, uniqueIndex, store, resp, inp, out>>

\* updateOne({booking_id, tenant_id}, {$set: updates}) (lines 192-195).
RaceUpdateWrite(p) ==
  /\ pc[p] = "write"
  /\ local[p].op = "update"
  /\ store' = [store EXCEPT !["salon-a"] =
                 UpdateOne(@, local[p].req.booking_id, "salon-a", local[p].updates)]
  /\ RaceDone(p, "update", TRUE, "")
  /\ UNCHANGED <<cfg, now, uniqueIndex, resp, inp, out>>

\* cancelAppointment up to its updateOne (lines 21-59).
RaceCancelFind(p, req) ==
  /\ pc[p] \in {"idle", "done"}
  /\ LET r == CancelResult("salon-a", store["salon-a"], req)
     IN IF r.ok
        THEN /\ pc' = [pc EXCEPT ![p] = "write"]
             /\ local' = [local EXCEPT ![p] =
                            [op |-> "cancel", req |-> req,
                             updates |-> [status |-> "cancelled", cancelled_at |-> now,
                                          cancellation_reason |-> Trim(req.cancellation_reason)]]]
        ELSE RaceDone(p, "cancel", FALSE, r.error)
  /\ UNCHANGED <<cfg, now, uniqueIndex, store, resp, inp, out>>

\* updateOne({booking_id, tenant_id}, {$set: {status: 'cancelled', ...}}) (lines 62-73).
RaceCancelWrite(p) ==
  /\ pc[p] = "write"
  /\ local[p].op = "cancel"
  /\ store' = [store EXCEPT !["salon-a"] =
                 UpdateOne(@, local[p].req.booking_id, "salon-a", local[p].updates)]
  /\ RaceDone(p, "cancel", TRUE, "")
  /\ UNCHANGED <<cfg, now, uniqueIndex, resp, inp, out>>

InitRace ==
  /\ InitIdle
  /\ cfg = [t \in Tenants |-> TenantConfig(WeekHours, Settings(30, 2, 2, 1))]
  /\ uniqueIndex = TRUE
  /\ store = [t \in Tenants |-> <<>>]

NextRace ==
  \/ RaceBook
  \/ \E p \in Procs :
       \/ \E req \in RaceUpdateRequests : RaceUpdateFind(p, req)
       \/ RaceUpdatePlan(p)
       \/ RaceUpdateWrite(p)
       \/ \E req \in RaceCancelRequests : RaceCancelFind(p, req)
       \/ RaceCancelWrite(p)

SpecRace == InitRace /\ [][NextRace]_vars

-----------------------------------------------------------------------------
(* SpecUpdate: bookings and updates made one at a time, the updates with    *)
(* every combination of new_date, new_time, new_service_id and new_notes.   *)

UpdateBookRequests ==
  {BookRequest(3, 9 * 60, "SRV-30"), BookRequest(3, 9 * 60 + 30, "SRV-60"),
   BookRequest(4, 9 * 60, "SRV-30")}

\* New dates: none, Thursday (open), Friday (disabled).  New times: none,
\* 09:30 (inside the opening hours), 23:30 (outside).
AllUpdateRequests ==
  {[booking_id |-> id, new_date |-> d, new_time |-> tm, new_service_id |-> sv,
    has_notes |-> hn, new_notes |-> <<" ", "n">>] :
     id \in StoredIds("salon-a"), d \in {None, 4, 5}, tm \in {None, 9 * 60 + 30, 23 * 60 + 30},
     sv \in {"", "SRV-60"}, hn \in BOOLEAN}

InitUpdate ==
  /\ InitIdle
  /\ cfg = [t \in Tenants |-> TenantConfig(WeekHours, Settings(30, 2, 2, 1))]
  /\ uniqueIndex = TRUE
  /\ store = [t \in Tenants |-> <<>>]

UpdateBook ==
  \E req \in UpdateBookRequests :
    Len(store["salon-a"]) < MaxUpdateAppts /\ BookAppointment("salon-a", req)
UpdateUpdate == \E req \in AllUpdateRequests : UpdateAppointment("salon-a", req)

NextUpdate == UpdateBook \/ UpdateUpdate

SpecUpdate == InitUpdate /\ [][NextUpdate]_vars

-----------------------------------------------------------------------------
(* SpecLate: bookings and updates made one at a time on an evening salon    *)
(* (open 23:00-23:45), where a 60-minute appointment at 23:30 runs past     *)
(* midnight.                                                                *)

LateBookRequests ==
  {BookRequest(3, 23 * 60, "SRV-30"), BookRequest(3, 23 * 60 + 30, "SRV-60"),
   BookRequest(3, 23 * 60 + 30, "SRV-30")}

LateUpdateRequests ==
  {[booking_id |-> id, new_date |-> d, new_time |-> tm, new_service_id |-> "",
    has_notes |-> hn, new_notes |-> <<"n">>] :
     id \in StoredIds("salon-a"), d \in {None, 3}, tm \in {None, 23 * 60, 23 * 60 + 30},
     hn \in BOOLEAN}

InitLate ==
  /\ InitIdle
  /\ cfg = [t \in Tenants |-> LateConfig]
  /\ uniqueIndex = TRUE
  /\ store = [t \in Tenants |-> <<>>]

LateBook ==
  \E req \in LateBookRequests :
    Len(store["salon-a"]) < MaxLateAppts /\ BookAppointment("salon-a", req)
LateUpdate == \E req \in LateUpdateRequests : UpdateAppointment("salon-a", req)

NextLate == LateBook \/ LateUpdate

SpecLate == InitLate /\ [][NextLate]_vars

-----------------------------------------------------------------------------
(* Notions the claims are stated with                                      *)

\* Two half-open intervals intersect.
Intersects(a1, a2, b1, b2) == a1 < b2 /\ b1 < a2

\* The active appointments of a date whose [time, end_time) intersects [time, time + duration).
ActiveOverlapping(docs, date, time, duration) ==
  Cardinality({i \in 1..Len(docs) :
                 /\ IsActive(docs[i]) /\ docs[i].date = date
                 /\ Intersects(time, time + duration, docs[i].time, docs[i].end_time)})

\* The active appointments of a date whose [time, end_time) covers an instant.
ActiveCovering(docs, date, instant) ==
  Cardinality({i \in 1..Len(docs) :
                 /\ IsActive(docs[i]) /\ docs[i].date = date
                 /\ docs[i].time <= instant /\ instant < docs[i].end_time})

\* The limit the tenant configures as number_of_stylists, and the limit the
\* booking path reads (max_concurrent_bookings).
StylistLimit(t) == OrDefault(cfg[t].settings.number_of_stylists, DefaultStylists)
BookingLimit(t) == OrDefault(cfg[t].settings.max_concurrent_bookings, DefaultMaxConcurrent)

\* At every start time of a stored appointment (where the number of covering
\* appointments is greatest) at most `limit` active appointments cover it.
WithinCapacity(docs, limit) ==
  \A i \in 1..Len(docs) : ActiveCovering(docs, docs[i].date, docs[i].time) <= limit

-----------------------------------------------------------------------------
(* C1: for a tenant whose number_of_stylists is N, a valid bookAppointment  *)
(* request whose window already overlaps N active appointments fails with   *)
(* the capacity reason and inserts nothing; with fewer than N overlapping   *)
(* it is admitted and stored as confirmed.                                  *)
C1_SequentialCapacityAdmission ==
  [][\A req \in BookRequests :
       (BookAppointment("salon-a", req) /\ ValidateBookingInput("salon-a", req).valid)
       => LET docs == store["salon-a"]
              after == store'["salon-a"]
              n == ActiveOverlapping(docs, req.date, req.time,
                                     GetService("salon-a", req.service_id).duration_minutes)
          IN IF n >= StylistLimit("salon-a")
             THEN ~resp'.ok /\ resp'.errors = <<"no_stylist_available">> /\ after = docs
             ELSE resp'.ok /\ Len(after) = Len(docs) + 1
                  /\ after[Len(after)].status = "confirmed"]_vars

(* C2: in every interleaving of concurrent bookAppointment calls the number *)
(* of stored active appointments covering an instant never exceeds the      *)
(* tenant's capacity limit.                                                 *)
C2_ConcurrentCapacityAdmission ==
  WithinCapacity(store[ConcTenant], BookingLimit(ConcTenant))

(* C3: after any sequence of book, update and cancel calls made one at a    *)
(* time, for every tenant at most the capacity limit of active appointments *)
(* cover any instant of a date.                                             *)
C3_SequentialCapacityInvariant ==
  \A t \in Tenants : WithinCapacity(store[t], BookingLimit(t))

(* C4: in every interleaving of concurrent bookAppointment calls no two     *)
(* stored appointments share a booking_id.                                  *)
C4_IdentifierUniqueness ==
  \A t \in Tenants : \A i, j \in 1..Len(store[t]) :
    i # j => store[t][i].booking_id # store[t][j].booking_id

(* C6: a bookAppointment call whose insert was refused because the          *)
(* identifier already exists retries, so with a single competing booking it *)
(* does not return a failure.                                               *)
C6_CollisionRetry ==
  \A p \in Procs : (pc[p] = "done" /\ local[p].conflicts > 0) => local[p].ok


\* The greatest sequence number among the identifiers of a tenant and date, 0 when none.
RECURSIVE HighestSeqIn(_, _, _, _, _)
HighestSeqIn(docs, t, date, lo, hi) ==
  IF lo > hi THEN 0
  ELSE IF lo = hi
  THEN IF docs[lo].booking_id.tenant = t /\ docs[lo].booking_id.date = date
       THEN ParseInt(docs[lo].booking_id.digits) ELSE 0
  ELSE LET mid == (lo + hi) \div 2
           left == HighestSeqIn(docs, t, date, lo, mid)
           right == HighestSeqIn(docs, t, date, mid + 1, hi)
       IN IF left < right THEN right ELSE left

HighestSeq(docs, t, date) == HighestSeqIn(docs, t, date, 1, Len(docs))

\* The decimal digits of n, zero-padded to at least three.
SeqDigits(n) ==
  IF n < 10 THEN <<0, 0, n>>
  ELSE IF n < 100 THEN <<0, n \div 10, n % 10>>
  ELSE IF n < 1000 THEN <<n \div 100, (n \div 10) % 10, n % 10>>
  ELSE <<n \div 1000, (n \div 100) % 10, (n \div 10) % 10, n % 10>>

(* C5: every successful bookAppointment made one call at a time returns the *)
(* identifier of its tenant and date whose sequence number is the highest   *)
(* existing sequence number of that tenant and date plus 1 (1 when none),   *)
(* zero-padded to 3 digits.                                                 *)
C5_IdentifierMonotonicity ==
  [][\A req \in WideRequests :
       (BookAppointment("salon-a", req) /\ resp'.ok)
       => resp'.booking_id =
            [wellFormed |-> TRUE, tenant |-> "salon-a", date |-> req.date,
             digits |-> SeqDigits(HighestSeq(store["salon-a"], "salon-a", req.date) + 1)]]_vars

(* C7: on a tenant and date holding the sequence numbers 1..999 every       *)
(* further booking gets a sequence number greater than all existing ones,   *)
(* and update and cancel calls accept the identifiers issued.               *)
C7_IdentifierWidening ==
  [][/\ (resp'.op = "book" /\ resp'.ok)
          => \A i \in 1..Len(store["salon-a"]) :
               store["salon-a"][i].booking_id.date = resp'.booking_id.date
               => ParseInt(store["salon-a"][i].booking_id.digits) < ParseInt(resp'.booking_id.digits)
     /\ (resp'.op \in {"update", "cancel"} /\ ~resp'.ok)
          => resp'.errors # <<"booking_id_invalid">>]_vars

(* C8: countConcurrentBookings counts an appointment [a, e) with a < e    *)
(* against a slot [s, s+d) with d > 0 exactly when s < e and a < s+d, so a  *)
(* back-to-back appointment is not counted and a partly overlapping one is. *)
C8_OverlapTest ==
  out.op = "count"
  => out.count = Cardinality({i \in 1..Len(inp.existingAppointments) :
                                /\ inp.time < inp.existingAppointments[i].end_time
                                /\ inp.existingAppointments[i].time < inp.time + inp.duration})

\* The slot [10:00,10:30) against [10:30,11:00) and [10:15,10:45): one counted.
C8_Witness ==
  /\ out.op = "count"
  /\ inp.time = 10 * 60
  /\ inp.duration = 30
  /\ inp.existingAppointments = <<[time |-> 10 * 60 + 30, end_time |-> 11 * 60],
                                  [time |-> 10 * 60 + 15, end_time |-> 10 * 60 + 45]>>
  /\ out.count = 1

(* C9: on a date whose weekday entry is disabled or missing,               *)
(* getAvailableSlots returns the empty sequence, whatever is stored.        *)
C9_ClosedDayNoSlots ==
  (out.op = "slots" /\ ~out.workingHours.enabled) => out.slots = <<>>

\* Slots were listed for a Friday closed after an appointment was booked on it.
C9_Witness ==
  /\ out.op = "slots"
  /\ out.date = 5
  /\ ~out.workingHours.enabled
  /\ out.workingHours.start < out.workingHours.end
  /\ out.slots = <<>>
  /\ \E i \in 1..Len(store["salon-a"]) :
       IsActive(store["salon-a"][i]) /\ store["salon-a"][i].date = out.date

(* C10: on an enabled weekday with opening O, closing C, granularity g > 0  *)
(* and service duration d > 0 the candidate start times of                  *)
(* getAvailableSlots are exactly the O + k*g (k >= 0) with O + k*g + d <= C,*)
(* each once: none ends after C, one ending at C is included, and there is  *)
(* none when d > C - O.                                                     *)
C10_SlotCandidates ==
  (out.op = "slots" /\ out.workingHours.enabled /\ out.slot_duration_minutes > 0)
  => LET O == out.workingHours.start
         C == out.workingHours.end
         g == out.slot_duration_minutes
         d == out.serviceDuration
     IN /\ Range(out.candidates)
             = {x \in {O + k * g : k \in 0..(MinutesPerDay \div g)} : x + d <= C}
        /\ Len(out.candidates) = Cardinality(Range(out.candidates))
        /\ \A x \in Range(out.candidates) : x + d <= C
        /\ (d > C - O => out.candidates = <<>>)
        /\ \A i \in 1..Len(out.slots) : out.slots[i].time \in Range(out.candidates)

\* Several candidates were generated and the last one ends at closing time.
C10_Witness ==
  /\ out.op = "slots"
  /\ out.workingHours.enabled
  /\ out.slot_duration_minutes > 0
  /\ Len(out.candidates) >= 2
  /\ out.candidates[Len(out.candidates)] + out.serviceDuration = out.workingHours.end

\* The active appointments of a date whose window [time, time + service_duration)
\* intersects [time, time + duration).
ActiveIntersecting(docs, date, time, duration) ==
  Cardinality({i \in 1..Len(docs) :
                 /\ IsActive(docs[i]) /\ docs[i].date = date
                 /\ Intersects(time, time + duration,
                               docs[i].time, docs[i].time + docs[i].service_duration)})

\* The time-of-day values of a sequence of slots ascend strictly.
Ascending(slots) ==
  \A i \in 1..Len(slots), j \in 1..Len(slots) : i < j => slots[i].time < slots[j].time

(* C11: every slot getAvailableSlots returns carries available_slots =      *)
(* number_of_stylists minus the number of active appointments of the date   *)
(* whose window intersects [time, time + duration), and that is positive;   *)
(* candidates with no capacity left are absent; times ascend strictly.      *)
C11_ReturnedSlots ==
  [][(out'.op = "slots" /\ out' # out)
     => LET listed == out'.slots
            remaining(tm) == StylistLimit(out'.tenant)
                               - ActiveIntersecting(store[out'.tenant], out'.date, tm,
                                                    out'.serviceDuration)
        IN /\ \A i \in 1..Len(listed) :
                /\ listed[i].available_slots = remaining(listed[i].time)
                /\ listed[i].available_slots > 0
           /\ out'.workingHours.enabled
                => \A tm \in Range(out'.candidates) :
                     remaining(tm) <= 0 => \A i \in 1..Len(listed) : listed[i].time # tm
           /\ Ascending(listed)]_vars

C13_SingleSlotCheck ==
  [][(inp'.op = "check" /\ (inp' # inp \/ out' # out))
     => LET overlapCount == ActiveIntersecting(store[inp'.tenant], inp'.date, inp'.time,
                                               inp'.duration)
            limit == BookingLimit(inp'.tenant)
        IN IF overlapCount >= limit
           THEN ~out'.result.available /\ out'.result.error = "no_stylist_available"
           ELSE /\ out'.result.available
                /\ out'.result.available_slots = limit - overlapCount
                /\ out'.result.available_slots >= 1]_vars

\* The slot the listing returns for a time, as a set (empty when the time is not listed).
ListedAt(t, docs, date, tm, d) ==
  LET listed == GetAvailableSlots(t, docs, date, d)
  IN {listed[i].available_slots : i \in {j \in 1..Len(listed) : listed[j].time = tm}}

\* The capacity the single-slot check returns for a time, as a set (empty when unavailable).
CheckedAt(t, docs, date, tm, d) ==
  LET result == IsSlotAvailable(t, docs, date, tm, d)
  IN IF result.available THEN {result.available_slots} ELSE {}

(* C14: on every stored state and configuration, a candidate time is listed *)
(* by getAvailableSlots with remaining capacity r exactly when              *)
(* isSlotAvailable answers available with available_slots = r for it.       *)
C14_ListingAgreesWithCheck ==
  \A date \in SlotDates, d \in SlotServiceDurations :
    GetWorkingHours("salon-a", DayName(date)).enabled
    => \A tm \in Range(SlotCandidates("salon-a", date, d)) :
         ListedAt("salon-a", store["salon-a"], date, tm, d)
           = CheckedAt("salon-a", store["salon-a"], date, tm, d)

(* C15: for a tenant whose cancellation_hours_notice is H >= 0 and an       *)
(* appointment that is not cancelled and starts h hours from now,           *)
(* cancelAppointment fails with the already-past error when h < 0, fails    *)
(* with the insufficient-notice error when 0 <= h < H, and otherwise        *)
(* (h >= H) stores status cancelled with cancelled_at and the reason; a     *)
(* failed call leaves the record as it was.                                 *)
C15_CancellationNotice ==
  [][\A req \in CancelCancelRequests :
       LET t == "salon-a"
           k == FindOneIndex(store[t], req.booking_id, t)
           appointment == store[t][k]
           noticeMinutes == cfg[t].settings.cancellation_hours_notice * 60
           minutesUntil == At(appointment.date, appointment.time) - now
       IN (CancelAppointment(t, req) /\ k # 0 /\ appointment.status # "cancelled")
          => CASE minutesUntil < 0
                    -> resp'.errors = <<"appointment_already_past">> /\ store' = store
               [] minutesUntil >= 0 /\ minutesUntil < noticeMinutes
                    -> resp'.errors = <<"insufficient_notice">> /\ store' = store
               [] OTHER
                    -> /\ resp'.ok
                       /\ store'[t][k] = [appointment EXCEPT
                                            !.status = "cancelled",
                                            !.cancelled_at = now,
                                            !.cancellation_reason = Trim(req.cancellation_reason)]]_vars

(* C17: on an appointment whose status is cancelled updateAppointment      *)
(* fails with the cannot-update-cancelled error and cancelAppointment fails *)
(* with the already-cancelled error, and neither changes any stored record. *)
C17_CancelledRejected ==
  [][/\ \A req \in CancelUpdateRequests :
          LET k == FindOneIndex(store["salon-a"], req.booking_id, "salon-a")
          IN (UpdateAppointment("salon-a", req) /\ k # 0
                /\ store["salon-a"][k].status = "cancelled")
             => resp'.errors = <<"cannot_update_cancelled">> /\ store' = store
     /\ \A req \in CancelCancelRequests :
          LET k == FindOneIndex(store["salon-a"], req.booking_id, "salon-a")
          IN (CancelAppointment("salon-a", req) /\ k # 0
                /\ store["salon-a"][k].status = "cancelled")
             => resp'.errors = <<"already_cancelled">> /\ store' = store]_vars

\* A second cancellation was refused at a later time than the first was stored.
C17_Witness ==
  /\ resp.op = "cancel"
  /\ resp.errors = <<"already_cancelled">>
  /\ \E i \in 1..Len(store["salon-a"]) :
       /\ store["salon-a"][i].booking_id = resp.booking_id
       /\ store["salon-a"][i].status = "cancelled"
       /\ store["salon-a"][i].cancelled_at < now

(* C16: in every interleaving of calls, a stored appointment whose status  *)
(* is cancelled is not changed by any later step.                           *)
C16_CancelledImmutable ==
  [][\A t \in Tenants : \A i \in 1..Len(store[t]) :
       store[t][i].status = "cancelled" => store'[t][i] = store[t][i]]_vars

(* C18: after every successful bookAppointment and updateAppointment made  *)
(* one at a time every stored record has end_time = time + service_duration *)
(* as a time of day, service_duration being the duration of its service_id; *)
(* when the window does not cross midnight end_time is later than time.     *)
C18_EndTime ==
  \A t \in Tenants : \A i \in 1..Len(store[t]) :
    LET apt == store[t][i]
    IN /\ apt.service_duration = GetService(t, apt.service_id).duration_minutes
       /\ apt.end_time = (apt.time + apt.service_duration) % MinutesPerDay
       /\ (apt.time + apt.service_duration < MinutesPerDay => apt.end_time > apt.time)

\* An update changed date, time, service and notes of an appointment at once.
C18_Witness ==
  /\ resp.op = "update"
  /\ resp.ok
  /\ \E i \in 1..Len(store["salon-a"]) :
       LET apt == store["salon-a"][i]
       IN /\ apt.booking_id = resp.booking_id
          /\ apt.booking_id.date = 3
          /\ apt.date = 4
          /\ apt.time = 9 * 60 + 30
          /\ apt.service_id = "SRV-60"
          /\ apt.end_time = 10 * 60 + 30
          /\ apt.notes = <<"n">>

(* C19: when updateAppointment changes date and/or time, also with only    *)
(* new_time given, either the stored (date, time) passes validateDate and   *)
(* validateTime for the tenant, or the call fails and nothing is changed.   *)
C19_UpdateRevalidates ==
  [][\A req \in AllUpdateRequests :
       LET t == "salon-a"
           k == FindOneIndex(store[t], req.booking_id, t)
       IN (UpdateAppointment(t, req) /\ k # 0 /\ (HasNewDate(req) \/ HasNewTime(req)))
          => IF resp'.ok
             THEN LET apt == store'[t][k]
                      dateValidation == ValidateDate(t, apt.date)
                  IN /\ dateValidation.valid
                     /\ ValidateTime(t, apt.time, dateValidation.dayName).valid
             ELSE store' = store]_vars

\* The stored appointments without the one at index k.
Without(docs, k) == SubSeq(docs, 1, k - 1) \o SubSeq(docs, k + 1, Len(docs))

(* C20: an updateAppointment that moves an appointment to a window, and is *)
(* not refused for its date, time or service, is admitted exactly when      *)
(* isSlotAvailable answers available for that window on the stored          *)
(* appointments without the one being updated.                              *)
C20_UpdateCapacityRule ==
  [][\A req \in UpdateRequests("salon-a") :
       LET t == "salon-a"
           k == FindOneIndex(store[t], req.booking_id, t)
           appointment == store[t][k]
           targetDate == IF HasNewDate(req) THEN req.new_date ELSE appointment.date
           targetTime == IF HasNewTime(req) THEN req.new_time ELSE appointment.time
           duration == IF HasNewService(req)
                       THEN GetService(t, req.new_service_id).duration_minutes
                       ELSE appointment.service_duration
           decision == IsSlotAvailable(t, Without(store[t], k), targetDate, targetTime, duration)
       IN (UpdateAppointment(t, req) /\ k # 0 /\ (HasNewDate(req) \/ HasNewTime(req)))
          => /\ resp'.ok => decision.available
             /\ resp'.errors = <<"slot_already_booked">> => ~decision.available]_vars

(* C21: an updateAppointment that gives as new_date and/or new_time the    *)
(* values the appointment already has, while no other active appointment's  *)
(* window intersects its window, succeeds and leaves date, time and         *)
(* end_time as they were.                                                   *)
C21_UpdateSelfExclusion ==
  [][\A req \in LateUpdateRequests :
       LET t == "salon-a"
           k == FindOneIndex(store[t], req.booking_id, t)
           appointment == store[t][k]
           sameValues == /\ HasNewDate(req) \/ HasNewTime(req)
                         /\ HasNewDate(req) => req.new_date = appointment.date
                         /\ HasNewTime(req) => req.new_time = appointment.time
                         /\ ~HasNewService(req)
       IN (/\ UpdateAppointment(t, req)
           /\ k # 0
           /\ IsActive(appointment)
           /\ sameValues
           /\ ActiveIntersecting(Without(store[t], k), appointment.date, appointment.time,
                                 appointment.service_duration) = 0)
          => /\ resp'.ok
             /\ store'[t][k].date = appointment.date
             /\ store'[t][k].time = appointment.time
             /\ store'[t][k].end_time = appointment.end_time]_vars

-----------------------------------------------------------------------------
(* SpecValidate: the validators called on their own and through            *)
(* bookAppointment, on well-formed and malformed inputs.  Today is day 3,  *)
(* a Wednesday.                                                            *)

\* advance_booking_days as written in the settings.
ValidateAdvanceDays == {0, 1, 2}

\* a past day, a day inside every advance window, a day beyond every one
ValidateBlockedDates == {2, 4, 37}

ValidateConfigs ==
  {[TenantConfig(WeekHours, [Settings(30, 1, 1, 1) EXCEPT !.advance_booking_days = n])
      EXCEPT !.blocked_dates = ValidateBlockedDates] : n \in ValidateAdvanceDays}

\* malformed, yesterday, today, the next days, and the days around today + 30
ValidateDates == {BadDate, 2, 3, 4, 5, 6, 3 + DefaultAdvanceDays, 4 + DefaultAdvanceDays, 37}

\* malformed, one minute before opening, opening, one minute before closing, closing
ValidateTimes == {BadTime, 9 * 60 - 1, 9 * 60, 10 * 60 - 1, 10 * 60}

\* an enabled day, a disabled day, a day the configuration does not list
ValidateDayNames == {"wednesday", "friday", "sunday"}

ValidateRequests ==
  {[customer_name |-> nm, phone_number |-> ph, service_id |-> sv,
    date |-> d, time |-> tm, notes |-> <<>>] :
     nm \in {Name, <<" ", "S", " ">>}, ph \in {"99888777", "+14155552671"},
     sv \in {"SRV-30", "SRV-OLD"}, d \in {2, 3}, tm \in {9 * 60, 10 * 60}}

InitValidate ==
  /\ InitIdle
  /\ \E c \in ValidateConfigs : cfg = [t \in Tenants |-> c]
  /\ uniqueIndex = TRUE
  /\ store = [t \in Tenants |-> <<>>]

ValidateDateCall ==
  /\ \E date \in ValidateDates :
       /\ inp' = [op |-> "date", tenant |-> "salon-a", date |-> date]
       /\ out' = [op |-> "date", result |-> ValidateDate("salon-a", date)]
  /\ UNCHANGED <<cfg, now, uniqueIndex, store, resp, pc, local>>

ValidateTimeCall ==
  /\ \E time \in ValidateTimes, dayName \in ValidateDayNames :
       /\ inp' = [op |-> "time", tenant |-> "salon-a", time |-> time, dayName |-> dayName]
       /\ out' = [op |-> "time", result |-> ValidateTime("salon-a", time, dayName)]
  /\ UNCHANGED <<cfg, now, uniqueIndex, store, resp, pc, local>>

ValidateInputCall ==
  /\ \E req \in ValidateRequests :
       /\ inp' = [op |-> "input", tenant |-> "salon-a", req |-> req]
       /\ out' = [op |-> "input", result |-> ValidateBookingInput("salon-a", req)]
  /\ UNCHANGED <<cfg, now, uniqueIndex, store, resp, pc, local>>

\* One bookAppointment call, its request and its response kept in inp and out.
ValidateBook ==
  /\ Len(store["salon-a"]) < MaxValidateAppts
  /\ \E req \in ValidateRequests :
       LET r == BookResult("salon-a", store["salon-a"], req)
       IN /\ store' = [store EXCEPT !["salon-a"] = r.docs]
          /\ inp' = [op |-> "book", tenant |-> "salon-a", req |-> req]
          /\ out' = [op |-> "book",
                     result |-> [ok |-> r.ok, errors |-> r.errors, booking_id |-> r.booking_id]]
  /\ UNCHANGED <<cfg, now, uniqueIndex, resp, pc, local>>

NextValidate == ValidateDateCall \/ ValidateTimeCall \/ ValidateInputCall \/ ValidateBook

SpecValidate == InitValidate /\ [][NextValidate]_vars

\* The five checks of a booking request, in the order they are made, each
\* with whether it was run and failed and the reason it gives.
PhoneCheck(t, req) ==
  [failed |-> ~ValidatePhone(req.phone_number).valid, error |-> ValidatePhone(req.phone_number).error]

DateCheck(t, req) ==
  [failed |-> ~ValidateDate(t, req.date).valid, error |-> ValidateDate(t, req.date).error]

TimeCheck(t, req) ==
  LET run == ValidateDate(t, req.date).valid
      v == ValidateTime(t, req.time, DayName(req.date))
  IN [failed |-> run /\ ~v.valid, error |-> v.error]

ServiceCheck(t, req) ==
  [failed |-> GetService(t, req.service_id).id = "null", error |-> "service_unavailable"]

NameCheck(t, req) ==
  [failed |-> Len(Trim(req.customer_name)) < MinNameLength, error |-> "name_required"]

Checks(t, req) ==
  <<PhoneCheck(t, req), DateCheck(t, req), TimeCheck(t, req), ServiceCheck(t, req),
    NameCheck(t, req)>>

\* The reasons of the failing checks, in the order of the checks.
RECURSIVE FailingReasons(_)
FailingReasons(checks) ==
  IF checks = <<>> THEN <<>>
  ELSE (IF Head(checks).failed THEN <<Head(checks).error>> ELSE <<>>)
       \o FailingReasons(Tail(checks))

(* C22: validateBookingInput returns the reasons of all failing checks in   *)
(* the order phone, date, time, service, customer name, the time check      *)
(* being run only when the date check passed; it is valid exactly when no   *)
(* check failed, and then carries the canonical phone, the weekday and the  *)
(* service; bookAppointment reports that same list and inserts nothing      *)
(* when the list is not empty.                                              *)
C22_MultiErrorAccumulation ==
  [][/\ (inp'.op = "input" /\ ValidateInputCall)
          => LET req == inp'.req
                 reasons == FailingReasons(Checks("salon-a", req))
             IN /\ out'.result.errors = reasons
                /\ out'.result.valid = (reasons = <<>>)
                /\ out'.result.valid
                     => /\ out'.result.phone_number = "+96599888777"
                        /\ out'.result.dayName = DayName(req.date)
                        /\ out'.result.service.id = req.service_id
                        /\ out'.result.service.active
     /\ (inp'.op = "book" /\ ValidateBook)
          => LET reasons == FailingReasons(Checks("salon-a", inp'.req))
             IN reasons # <<>>
                  => /\ out'.result.errors = reasons
                     /\ ~out'.result.ok
                     /\ store' = store]_vars

\* One call of each kind has returned several reasons.
C22_Witness ==
  \/ /\ out.op = "input"
     /\ out.result.errors
          = <<"phone_not_kuwaiti", "date_past", "service_unavailable", "name_required">>
  \/ /\ out.op = "book"
     /\ out.result.errors = <<"phone_not_kuwaiti", "outside_working_hours", "name_required">>

(* C23: validateDate accepts a well-formed date D exactly when              *)
(* today <= D <= today + advance_booking_days and D is not blocked; a       *)
(* rejected date gets one reason, the first that applies of malformed,      *)
(* past, beyond the advance window, blocked; an accepted date comes with    *)
(* its weekday.                                                             *)
C23_DateValidity ==
  out.op = "date"
  => LET t == inp.tenant
         D == inp.date
         advanceBookingDays == cfg[t].settings.advance_booking_days
         r == out.result
     IN CASE D = BadDate                       -> ~r.valid /\ r.error = "date_invalid"
          [] D < Today                         -> ~r.valid /\ r.error = "date_past"
          [] D > Today + advanceBookingDays    -> ~r.valid /\ r.error = "date_too_far"
          [] D \in cfg[t].blocked_dates        -> ~r.valid /\ r.error = "date_blocked"
          [] OTHER                             -> r.valid /\ r.dayName = DayName(D)

(* C24: validateTime accepts a well-formed time T on a weekday exactly when *)
(* the weekday is enabled and opening <= T < closing; on a weekday that is  *)
(* disabled or not listed every well-formed T gets the salon-closed reason. *)
C24_TimeValidity ==
  (out.op = "time" /\ inp.time # BadTime)
  => LET t == inp.tenant
         T == inp.time
         hours == cfg[t].working_hours
         listed == inp.dayName \in DOMAIN hours
         enabled == listed /\ hours[inp.dayName].enabled
     IN /\ out.result.valid
             = (enabled /\ hours[inp.dayName].start <= T /\ T < hours[inp.dayName].end)
        /\ ~enabled => out.result.error = "salon_closed"

C24_Witness ==
  /\ out.op = "time"
  /\ inp.dayName = "wednesday"
  /\ inp.time = cfg[inp.tenant].working_hours["wednesday"].end
  /\ ~out.result.valid
  /\ out.result.error = "outside_working_hours"


(* C25: an appointment that bookAppointment stores ends no later than the   *)
(* closing time of its weekday: time + service duration <= closing; a       *)
(* request starting inside working hours whose end passes closing is        *)
(* rejected and nothing is stored.                                          *)
C25_DurationFit ==
  [][\A req \in BookRequests :
       LET t == "salon-a"
           closing == GetWorkingHours(t, DayName(req.date)).end
           duration == GetService(t, req.service_id).duration_minutes
       IN /\ (BookAppointment(t, req) /\ Len(store'[t]) > Len(store[t]))
               => req.time + duration <= closing
          /\ (BookAppointment(t, req) /\ ValidateBookingInput(t, req).valid
                /\ req.time + duration > closing)
               => ~resp'.ok /\ store' = store]_vars

-----------------------------------------------------------------------------
(* SpecFind: bookAppointment followed by findAppointment, on an empty      *)
(* collection and on one that already holds the identifiers                *)
(* 001..SeedCount of the date.                                             *)

\* New customers: a name to trim or not, the national or the international
\* form of one phone number, a short or a long service.
FindBookRequests ==
  {[customer_name |-> nm, phone_number |-> ph, service_id |-> sv.id,
    date |-> 3, time |-> sv.time, notes |-> <<>>] :
     nm \in {Name, <<" ", "S", "u", " ">>}, ph \in {"+96555512345", "55512345"},
     sv \in {[id |-> "SRV-30", time |-> 9 * 60], [id |-> "SRV-30", time |-> 9 * 60 + 30],
             [id |-> "SRV-60", time |-> 9 * 60 + 30]}}

\* By the identifier last stored, by phone, or by neither.
FindRequests ==
  {[booking_id |-> id, phone_number |-> ""] :
     id \in {store["salon-a"][i].booking_id :
               i \in {Len(store["salon-a"])} \ {0}}}
  \cup {[booking_id |-> NoId, phone_number |-> ph] : ph \in {"", "55512345", "+14155552671"}}

InitFind ==
  /\ InitIdle
  /\ cfg = [t \in Tenants |-> CfgStylistsOnly]
  /\ uniqueIndex \in BOOLEAN
  /\ \E n \in {0, SeedCount} :
       store = [t \in Tenants |->
                  IF t = "salon-a" THEN [k \in 1..n |-> SeedAppointment(k)] ELSE <<>>]

\* The number of appointments booked since the start.
FindBooked ==
  IF Len(store["salon-a"]) >= SeedCount THEN Len(store["salon-a"]) - SeedCount
  ELSE Len(store["salon-a"])

FindBook ==
  \E req \in FindBookRequests : FindBooked < MaxFindAppts /\ BookAppointment("salon-a", req)

FindFind == \E req \in FindRequests : FindAppointment("salon-a", req)

NextFind == FindBook \/ FindFind

SpecFind == InitFind /\ [][NextFind]_vars

(* C26: findAppointment called with the booking_id that a successful       *)
(* bookAppointment has just returned, for the same tenant, succeeds with    *)
(* exactly one record: the trimmed customer name, the service, the date and *)
(* the time of the request, the canonical phone number, status confirmed.   *)
C26_BookFindRoundTrip ==
  [][\A req \in FindBookRequests :
       LET t == "salon-a"
           service == GetService(t, req.service_id)
       IN (/\ resp.op = "book" /\ resp.ok
           /\ FindAppointment(t, [booking_id |-> resp.booking_id, phone_number |-> ""])
           /\ store[t][Len(store[t])].customer_name = Trim(req.customer_name)
           /\ store[t][Len(store[t])].phone_number = ValidatePhone(req.phone_number).formatted
           /\ store[t][Len(store[t])].service_id = req.service_id
           /\ store[t][Len(store[t])].time = req.time)
          => /\ resp'.ok
             /\ Len(resp'.appointments) = 1
             /\ resp'.appointments[1].customer_name = Trim(req.customer_name)
             /\ resp'.appointments[1].service = service.name
             /\ resp'.appointments[1].date = FormatDateArabic(req.date)
             /\ resp'.appointments[1].time = req.time
             /\ resp'.appointments[1].phone_number = "+96555512345"
             /\ resp'.appointments[1].status = GetStatusArabic("confirmed")]_vars

(* C27: a record is created with status confirmed and no cancellation       *)
(* fields; the only change of status is to cancelled, made by a successful  *)
(* cancelAppointment; a cancelled record stays cancelled; no call removes a *)
(* record, so the stored booking_ids never become fewer.                    *)
C27_Lifecycle ==
  [][\A t \in Tenants :
       /\ Len(store'[t]) >= Len(store[t])
       /\ \A i \in 1..Len(store[t]) :
            /\ store'[t][i].booking_id = store[t][i].booking_id
            /\ store[t][i].status = "cancelled" => store'[t][i].status = "cancelled"
            /\ store'[t][i].status # store[t][i].status
                 => /\ store'[t][i].status = "cancelled"
                    /\ resp'.op = "cancel" /\ resp'.ok
                    /\ resp'.booking_id = store[t][i].booking_id
       /\ \A i \in (Len(store[t]) + 1)..Len(store'[t]) :
            /\ store'[t][i].status = "confirmed"
            /\ store'[t][i].cancelled_at = None
            /\ store'[t][i].cancellation_reason = <<>>
            /\ resp'.op = "book" /\ resp'.ok]_vars

\* A successful cancellation has just been stored.
C27_Witness ==
  /\ resp.op = "cancel"
  /\ resp.ok
  /\ \E i \in 1..Len(store["salon-a"]) :
       /\ store["salon-a"][i].booking_id = resp.booking_id
       /\ store["salon-a"][i].status = "cancelled"
       /\ store["salon-a"][i].cancelled_at = now

-----------------------------------------------------------------------------
(* SpecTenants: calls made one at a time for either tenant, each with its  *)
(* own configuration; identifiers of one tenant are also given to calls    *)
(* made for the other.                                                     *)

TenantBookRequests == {BookRequest(3, tm, "SRV-30") : tm \in {9 * 60, 9 * 60 + 30}}

\* The identifiers stored for any tenant.
AllStoredIds == UNION {StoredIds(t) : t \in Tenants}

TenantUpdateRequests ==
  {[booking_id |-> id, new_date |-> None, new_time |-> 9 * 60 + 30, new_service_id |-> "",
    has_notes |-> FALSE, new_notes |-> <<>>] : id \in AllStoredIds}

TenantCancelRequests == {[booking_id |-> id, cancellation_reason |-> <<>>] : id \in AllStoredIds}

TenantFindRequests ==
  {[booking_id |-> id, phone_number |-> ""] : id \in AllStoredIds}
  \cup {[booking_id |-> NoId, phone_number |-> "+96599888777"]}

TenantSlotDates == {3}

InitTenants ==
  /\ InitIdle
  /\ cfg = [t \in Tenants |-> IF t = "salon-a" THEN CfgMatched ELSE CfgTwoStylists]
  /\ uniqueIndex = TRUE
  /\ store = [t \in Tenants |-> <<>>]

TenantBook(t) ==
  \E req \in TenantBookRequests : Len(store[t]) < MaxTenantAppts /\ BookAppointment(t, req)

TenantUpdate(t) == \E req \in TenantUpdateRequests : UpdateAppointment(t, req)

TenantCancel(t) == \E req \in TenantCancelRequests : CancelAppointment(t, req)

TenantFind(t) == \E req \in TenantFindRequests : FindAppointment(t, req)

\* The slot query, answered in resp like the other calls.
TenantSlots(t) ==
  /\ \E date \in TenantSlotDates :
       resp' = [op |-> "slots", tenant |-> t, ok |-> TRUE, errors |-> <<>>, date |-> date,
                slots |-> GetAvailableSlots(t, store[t], date, 30)]
  /\ UNCHANGED <<cfg, now, uniqueIndex, store, pc, local, inp, out>>

NextTenants ==
  \E t \in Tenants :
    TenantBook(t) \/ TenantUpdate(t) \/ TenantCancel(t) \/ TenantFind(t) \/ TenantSlots(t)

SpecTenants == InitTenants /\ [][NextTenants]_vars

(* C28: a call made for one tenant, the tenant its response names, leaves  *)
(* every other tenant's stored appointments, available slots and next       *)
(* booking identifier as they were; an identifier returned by a booking for *)
(* one tenant is not found by findAppointment for another, and a find       *)
(* returns only the tenant's own records.                                   *)
C28_TenantIsolation ==
  [][LET t == resp'.tenant
     IN \A u \in Tenants \ {t} :
          /\ store'[u] = store[u]
          /\ \A date \in TenantSlotDates :
               /\ GetAvailableSlots(u, store'[u], date, 30)
                    = GetAvailableSlots(u, store[u], date, 30)
               /\ GenerateBookingId(u, store'[u], date) = GenerateBookingId(u, store[u], date)
          /\ (resp'.op = "book" /\ resp'.ok)
               => ~FindResult(u, store'[u],
                              [booking_id |-> resp'.booking_id, phone_number |-> ""]).ok
          /\ (resp'.op = "find" /\ resp'.ok)
               => \A i \in 1..Len(resp'.appointments) :
                    /\ resp'.appointments[i].booking_id \in StoredIds(t)
                    /\ resp'.appointments[i].booking_id \notin StoredIds(u)]_vars

\* findAppointment for salon-b has been given an identifier stored for
\* salon-a, while salon-b holds an appointment of its own.
C28_Witness ==
  /\ resp.op = "find"
  /\ resp.tenant = "salon-b"
  /\ resp.booking_id \in StoredIds("salon-a")
  /\ resp.errors = <<"booking_not_found">>
  /\ store["salon-b"] # <<>>

-----------------------------------------------------------------------------
(* SpecService: updates that name a new service - active, inactive or not  *)
(* in the configuration - alone or together with a new date or time.       *)

ServiceBookRequests ==
  {BookRequest(3, 9 * 60, "SRV-30"), BookRequest(4, 9 * 60, "SRV-30"),
   BookRequest(3, 9 * 60 + 30, "SRV-30"), BookRequest(4, 9 * 60, "SRV-60")}

ServiceUpdateRequests ==
  {[booking_id |-> id, new_date |-> d, new_time |-> tm, new_service_id |-> sv,
    has_notes |-> hn, new_notes |-> <<"n">>] :
     id \in StoredIds("salon-a"), d \in {None, 3, 4, 5}, tm \in {None, 9 * 60, 9 * 60 + 30},
     sv \in {"", "SRV-60", "SRV-OLD", "SRV-NONE"}, hn \in BOOLEAN}

InitService ==
  /\ InitIdle
  /\ cfg = [t \in Tenants |-> CfgTwoStylists]
  /\ uniqueIndex = TRUE
  /\ store = [t \in Tenants |-> <<>>]

ServiceBook ==
  \E req \in ServiceBookRequests :
    Len(store["salon-a"]) < MaxServiceAppts /\ BookAppointment("salon-a", req)

ServiceUpdate == \E req \in ServiceUpdateRequests : UpdateAppointment("salon-a", req)

NextService == ServiceBook \/ ServiceUpdate

SpecService == InitService /\ [][NextService]_vars

(* C29: an updateAppointment on a stored, not cancelled appointment whose   *)
(* new_service_id is not an active service of the tenant fails with the     *)
(* service-unavailable error and changes nothing, whichever of new_date,    *)
(* new_time and new_notes come with it.                                     *)
C29_UnknownServiceOnUpdate ==
  [][\A req \in ServiceUpdateRequests :
       LET t == "salon-a"
           k == FindOneIndex(store[t], req.booking_id, t)
       IN (/\ UpdateAppointment(t, req)
           /\ k # 0
           /\ store[t][k].status # "cancelled"
           /\ req.new_service_id # ""
           /\ \A sv \in cfg[t].services : ~(sv.id = req.new_service_id /\ sv.active))
          => /\ resp'.errors = <<"service_unavailable">>
             /\ store' = store]_vars

-----------------------------------------------------------------------------
(* SpecSnap: getAvailableSlots calls in flight, one per process, while     *)
(* bookings and cancellations are committed by other clients.  A call is    *)
(* cut at its one await: the find on the appointment collection.            *)

SnapTenant == "salon-a"

SnapDates == {3, 5}

SnapServiceDurations == {30, 60}

SnapBookRequests == {BookRequest(3, tm, "SRV-30") : tm \in {9 * 60, 9 * 60 + 30}}

\* Lines 22-51: the weekday, the working hours, the settings and the candidate
\* slots, all before the await; a closed day returns the empty list at once.
SnapCall(p) ==
  /\ pc[p] \in {"idle", "done"}
  /\ \E date \in SnapDates, serviceDuration \in SnapServiceDurations :
       LET workingHours == GetWorkingHours(SnapTenant, DayName(date))
           call == [op |-> "slots", date |-> date, serviceDuration |-> serviceDuration,
                    numberOfStylists |->
                      OrDefault(LoadTenantConfig(SnapTenant).settings.number_of_stylists,
                                DefaultStylists),
                    slots |-> IF workingHours.enabled
                              THEN SlotCandidates(SnapTenant, date, serviceDuration) ELSE <<>>,
                    existingAppointments |-> <<>>,
                    result |-> <<>>]
       IN /\ local' = [local EXCEPT ![p] = call]
          /\ pc' = [pc EXCEPT ![p] = IF workingHours.enabled THEN "find" ELSE "done"]
  /\ UNCHANGED <<cfg, now, uniqueIndex, store, resp, inp, out>>

\* Lines 54-58: await find({date, status in confirmed/pending}).toArray()
SnapFind(p) ==
  /\ pc[p] = "find"
  /\ local' = [local EXCEPT ![p].existingAppointments =
                 FindActiveOnDate(store[SnapTenant], local[p].date)]
  /\ pc' = [pc EXCEPT ![p] = "map"]
  /\ UNCHANGED <<cfg, now, uniqueIndex, store, resp, inp, out>>

\* Variant that reads the collection again when the capacities are computed.
SnapAppointmentsReread(p) == FindActiveOnDate(store[SnapTenant], local[p].date)

\* The array the map over the candidate slots works on.
SnapAppointments(p) == local[p].existingAppointments

\* Lines 60-71: the capacities of all candidates, filtered, and the return.
SnapReturn(p) ==
  /\ pc[p] = "map"
  /\ local' = [local EXCEPT ![p].result =
                 SelectSeq(SlotCapacities(local[p].slots, local[p].serviceDuration,
                                          SnapAppointments(p), local[p].date,
                                          local[p].numberOfStylists),
                           LAMBDA slot : slot.available_slots > 0)]
  /\ pc' = [pc EXCEPT ![p] = "done"]
  /\ UNCHANGED <<cfg, now, uniqueIndex, store, resp, inp, out>>

\* Commits by other clients.
SnapBook ==
  \E req \in SnapBookRequests :
    Len(store[SnapTenant]) < MaxSnapAppts /\ BookAppointment(SnapTenant, req)

SnapCancel == \E req \in CancelRequests(SnapTenant) : CancelAppointment(SnapTenant, req)

InitSnap ==
  /\ InitIdle
  /\ cfg = [t \in Tenants |-> CfgMatched]
  /\ uniqueIndex = TRUE
  /\ store = [t \in Tenants |-> <<>>]

NextSnap ==
  \/ SnapBook
  \/ SnapCancel
  \/ \E p \in Procs : SnapCall(p) \/ SnapFind(p) \/ SnapReturn(p)

SpecSnap == InitSnap /\ [][NextSnap]_vars

(* C30: a getAvailableSlots call reads the appointments once, at its find,  *)
(* and keeps that array whatever is committed afterwards; the list it        *)
(* returns is the one computed from the collection as it was at the find.    *)
C30_SingleSnapshot ==
  [][\A p \in Procs :
       /\ (pc[p] = "find" /\ pc'[p] = "map")
            => local'[p].existingAppointments
                 = FindActiveOnDate(store[SnapTenant], local[p].date)
       /\ (pc[p] = "map" /\ pc'[p] = "map")
            => local'[p].existingAppointments = local[p].existingAppointments
       /\ (pc[p] = "map" /\ pc'[p] = "done")
            => local'[p].result
                 = GetAvailableSlots(SnapTenant, local[p].existingAppointments,
                                     local[p].date, local[p].serviceDuration)]_vars

\* A call has returned a list computed from appointments that a commit made
\* during the call has since changed.
C30_Witness ==
  \E p \in Procs :
    /\ pc[p] = "done"
    /\ local[p].op = "slots"
    /\ local[p].date = 3
    /\ local[p].existingAppointments # FindActiveOnDate(store[SnapTenant], local[p].date)
    /\ local[p].result
         # GetAvailableSlots(SnapTenant, store[SnapTenant], local[p].date,
                             local[p].serviceDuration)

-----------------------------------------------------------------------------
(* SpecFree: bookings and cancellations made one at a time on one date,    *)
(* with 30- and 60-minute windows, one or two stylists.                    *)

FreeBookRequests ==
  {BookRequest(3, 9 * 60, "SRV-30"), BookRequest(3, 9 * 60 + 30, "SRV-30"),
   BookRequest(3, 9 * 60, "SRV-60")}

InitFree ==
  /\ InitIdle
  /\ \E c \in {CfgMatched, CfgTwoStylists} : cfg = [t \in Tenants |-> c]
  /\ uniqueIndex = TRUE
  /\ store = [t \in Tenants |-> <<>>]

FreeBook ==
  \E req \in FreeBookRequests :
    Len(store["salon-a"]) < MaxFreeAppts /\ BookAppointment("salon-a", req)

FreeCancel == \E req \in CancelRequests("salon-a") : CancelAppointment("salon-a", req)

NextFree == FreeBook \/ FreeCancel

SpecFree == InitFree /\ [][NextFree]_vars

\* The count the scheduler makes for the window of a request.
WindowCount(t, docs, req) ==
  CountConcurrentBookings(req.time, GetService(t, req.service_id).duration_minutes,
                          FindActiveOnDate(docs, req.date), req.date)

\* The remaining capacity isSlotAvailable reports for the window of a request.
CheckedCapacity(t, docs, req) ==
  IsSlotAvailable(t, docs, req.date, req.time,
                  GetService(t, req.service_id).duration_minutes).available_slots

\* The remaining capacity getAvailableSlots lists for the window of a request;
\* 0 when the start time is not listed.
ListedCapacity(t, docs, req) ==
  LET listed == ListedAt(t, docs, req.date, req.time,
                         GetService(t, req.service_id).duration_minutes)
  IN IF listed = {} THEN 0 ELSE CHOOSE c \in listed : TRUE

AtLeastZero(n) == IF n < 0 THEN 0 ELSE n

\* The step is a successful cancelAppointment of the appointment at index k,
\* whose window intersects the window of the request.
CancelledOverlapping(t, k, req) ==
  /\ resp'.op = "cancel" /\ resp'.ok
  /\ k = FindOneIndex(store[t], resp'.booking_id, t)
  /\ k # 0
  /\ store[t][k].status # "cancelled"
  /\ store'[t][k].status = "cancelled"
  /\ store[t][k].date = req.date
  /\ Intersects(req.time, req.time + GetService(t, req.service_id).duration_minutes,
                store[t][k].time, store[t][k].time + store[t][k].service_duration)

-----------------------------------------------------------------------------
(* C32: in every interleaving of two concurrent updateAppointment calls on  *)
(* the same appointment, once both calls have returned, every stored        *)
(* record has end_time = time + service_duration for its stored time and    *)
(* service duration.                                                        *)
C32_ConcurrentEndTime ==
  (\A p \in Procs : pc[p] \in {"idle", "done"})
  => \A i \in 1..Len(store["salon-a"]) :
       store["salon-a"][i].end_time
         = store["salon-a"][i].time + store["salon-a"][i].service_duration

-----------------------------------------------------------------------------
(* SpecConn: the Database singleton.  `out` holds its two fields (client    *)
(* and db, each null or set); connect(), close() and the POST /mcp handler  *)
(* are called by several callers at once and are cut at their awaits.  The  *)
(* server answers a connection attempt with success or with failure.        *)

\* constructor: this.client = null; this.db = null.
NewDatabase == [op |-> "database", client |-> FALSE, db |-> FALSE]

\* isConnected(): client !== null && db !== null.
IsConnected(database) == database.client /\ database.db

\* getCollection() throws when this.db is not set.
GetCollectionThrows(database) == ~database.db

ConnReturn(p, op, threw) ==
  /\ pc' = [pc EXCEPT ![p] = "done"]
  /\ local' = [local EXCEPT ![p] = [op |-> op, threw |-> threw]]

\* connect() up to `await this.client.connect()`: returns at once when
\* this.client is set, else creates the client and waits for the server.
ConnectCall(p) ==
  /\ pc[p] \in {"idle", "done"}
  /\ IF out.client
     THEN ConnReturn(p, "connect", FALSE) /\ out' = out
     ELSE /\ out' = [out EXCEPT !.client = TRUE]
          /\ pc' = [pc EXCEPT ![p] = "connecting"]
          /\ local' = [local EXCEPT ![p] = [op |-> "connect"]]
  /\ UNCHANGED <<cfg, now, uniqueIndex, store, resp, inp>>

\* The rest of connect(): on success this.db = this.client.db(dbName), which
\* throws when this.client was set to null meanwhile; on failure the error
\* is logged and thrown again, and this.client stays as it is.
ConnectResolve(p) ==
  /\ pc[p] = "connecting"
  /\ \E succeeded \in BOOLEAN :
       IF succeeded /\ out.client
       THEN out' = [out EXCEPT !.db = TRUE] /\ ConnReturn(p, "connect", FALSE)
       ELSE out' = out /\ ConnReturn(p, "connect", TRUE)
  /\ UNCHANGED <<cfg, now, uniqueIndex, store, resp, inp>>

\* close() up to `await this.client.close()`.
CloseCall(p) ==
  /\ pc[p] \in {"idle", "done"}
  /\ IF out.client
     THEN /\ pc' = [pc EXCEPT ![p] = "closing"]
          /\ local' = [local EXCEPT ![p] = [op |-> "close"]]
     ELSE ConnReturn(p, "close", FALSE)
  /\ UNCHANGED <<cfg, now, uniqueIndex, store, resp, inp, out>>

\* The rest of close(): this.client = null; this.db = null.
CloseResolve(p) ==
  /\ pc[p] = "closing"
  /\ out' = [out EXCEPT !.client = FALSE, !.db = FALSE]
  /\ ConnReturn(p, "close", FALSE)
  /\ UNCHANGED <<cfg, now, uniqueIndex, store, resp, inp>>

\* POST /mcp up to the await in connect(): `if (!database.isConnected())
\* await database.connect()`, then the tool, whose first store call is
\* getCollection().
HandleCall(p) ==
  /\ pc[p] \in {"idle", "done"}
  /\ IF IsConnected(out) \/ out.client
     THEN ConnReturn(p, "handle", GetCollectionThrows(out)) /\ out' = out
     ELSE /\ out' = [out EXCEPT !.client = TRUE]
          /\ pc' = [pc EXCEPT ![p] = "handling"]
          /\ local' = [local EXCEPT ![p] = [op |-> "handle"]]
  /\ UNCHANGED <<cfg, now, uniqueIndex, store, resp, inp>>

\* POST /mcp after the await in connect().
HandleResolve(p) ==
  /\ pc[p] = "handling"
  /\ \E succeeded \in BOOLEAN :
       IF succeeded /\ out.client
       THEN out' = [out EXCEPT !.db = TRUE] /\ ConnReturn(p, "handle", FALSE)
       ELSE out' = out /\ ConnReturn(p, "handle", TRUE)
  /\ UNCHANGED <<cfg, now, uniqueIndex, store, resp, inp>>

InitConn ==
  /\ now = StartOfModelTime
  /\ resp = NoResp
  /\ pc = [p \in Procs |-> "idle"]
  /\ local = [p \in Procs |-> NoLocal]
  /\ inp = NoInput
  /\ out = NewDatabase
  /\ cfg = [t \in Tenants |-> CfgMatched]
  /\ uniqueIndex = TRUE
  /\ store = [t \in Tenants |-> <<>>]

NextConn ==
  \E p \in Procs :
    \/ ConnectCall(p)
    \/ ConnectResolve(p)
    \/ CloseCall(p)
    \/ CloseResolve(p)
    \/ HandleCall(p)
    \/ HandleResolve(p)

SpecConn == InitConn /\ [][NextConn]_vars

(* C33: whenever connect() returns without throwing, isConnected() is true  *)
(* and getCollection() does not throw, also for a connect() issued while    *)
(* another is in progress or after an earlier connect() failed; connect()   *)
(* on a connected instance changes nothing; after close() has returned      *)
(* isConnected() is false.                                                  *)
C33_ConnectionStateMachine ==
  [][\A p \in Procs :
       /\ ((ConnectCall(p) \/ ConnectResolve(p)) /\ pc'[p] = "done" /\ ~local'[p].threw)
            => (IsConnected(out') /\ ~GetCollectionThrows(out'))
       /\ (ConnectCall(p) /\ IsConnected(out)) => out' = out
       /\ ((CloseCall(p) \/ CloseResolve(p)) /\ pc'[p] = "done") => ~IsConnected(out')]_vars

-----------------------------------------------------------------------------
(* SpecReject: bookings, updates and cancellations made one at a time with  *)
(* one stylist, among them requests that fail validation, name an           *)
(* identifier that is not stored, exceed the capacity or come too late for  *)
(* the cancellation notice.                                                 *)

\* A well-formed identifier no appointment has.
UnknownId == [wellFormed |-> TRUE, tenant |-> "salon-a", date |-> 3, digits |-> <<9, 9, 9>>]

RejectBookRequests ==
  {BookRequest(3, 9 * 60, "SRV-30"), BookRequest(3, 9 * 60 + 30, "SRV-30"),
   BookRequest(3, 9 * 60, "SRV-60"), BookRequest(5, 9 * 60, "SRV-30")}

RejectIds == StoredIds("salon-a") \cup {UnknownId, NoId}

RejectUpdateRequests ==
  {[booking_id |-> id, new_date |-> None, new_time |-> tm, new_service_id |-> sv,
    has_notes |-> hn, new_notes |-> <<"n">>] :
     id \in RejectIds, tm \in {None, 9 * 60, 9 * 60 + 30}, sv \in {"", "SRV-OLD"},
     hn \in BOOLEAN}

RejectCancelRequests ==
  {[booking_id |-> id, cancellation_reason |-> <<>>] : id \in RejectIds}

InitReject ==
  /\ InitIdle
  /\ \E h \in {1, 24} : cfg = [t \in Tenants |-> TenantConfig(WeekHours, Settings(30, 1, 1, h))]
  /\ uniqueIndex = TRUE
  /\ store = [t \in Tenants |-> <<>>]

RejectBook ==
  \E req \in RejectBookRequests :
    Len(store["salon-a"]) < MaxRejectAppts /\ BookAppointment("salon-a", req)
RejectUpdate == \E req \in RejectUpdateRequests : UpdateAppointment("salon-a", req)
RejectCancel == \E req \in RejectCancelRequests : CancelAppointment("salon-a", req)

NextReject == RejectBook \/ RejectUpdate \/ RejectCancel

SpecReject == InitReject /\ [][NextReject]_vars

(* C34: whenever bookAppointment, updateAppointment or cancelAppointment    *)
(* answers success = false, the appointment store of every tenant is the    *)
(* same after the call as before it.                                        *)
C34_RejectedHasNoEffect ==
  [][(resp'.op \in {"book", "update", "cancel"} /\ ~resp'.ok) => store' = store]_vars

\* An update of a stored appointment with new notes has been rejected for
\* capacity, next to an appointment that holds the requested time.
C34_Witness ==
  /\ resp.op = "update"
  /\ ~resp.ok
  /\ resp.errors = <<"slot_already_booked">>
  /\ Len(store["salon-a"]) = 2
  /\ \A i \in 1..2 : store["salon-a"][i].status = "confirmed" /\ store["salon-a"][i].notes = <<>>

-----------------------------------------------------------------------------
(* C35: after any sequence of bookings, cancellations and updates every     *)
(* stored record keeps its booking_id, and the identifier a successful      *)
(* bookAppointment issues differs from every identifier stored for the      *)
(* tenant before, whatever the status of its record.                        *)
C35_IdentifiersNeverReused ==
  [][/\ \A i \in 1..Len(store["salon-a"]) :
          store'["salon-a"][i].booking_id = store["salon-a"][i].booking_id
     /\ (resp'.op = "book" /\ resp'.ok /\ Len(store'["salon-a"]) = Len(store["salon-a"]) + 1)
          => \A i \in 1..Len(store["salon-a"]) :
               store["salon-a"][i].booking_id # resp'.booking_id]_vars

-----------------------------------------------------------------------------
(* SpecLookup: appointments of two customers are booked one at a time, the  *)
(* clock moves on to the small hours or the morning of a later day, and     *)
(* findAppointment is called with and without booking_id and phone_number.  *)

LookupPhones == {"+96599888777", "55512345"}

LookupBookRequests ==
  {[BookRequest(d, tm, "SRV-30") EXCEPT !.phone_number = ph] :
     d \in {3, 4}, tm \in {9 * 60, 9 * 60 + 30}, ph \in LookupPhones}

\* 01:00 and 08:00 of the eighth day after the start.
LookupInstants == {11 * MinutesPerDay + 60, 11 * MinutesPerDay + 8 * 60}

LookupFindRequests ==
  {[booking_id |-> id, phone_number |-> ph] :
     id \in StoredIds("salon-a") \cup {UnknownId, NoId}, ph \in LookupPhones \cup {""}}

InitLookup ==
  /\ InitIdle
  /\ cfg = [t \in Tenants |-> CfgTwoStylists]
  /\ uniqueIndex = TRUE
  /\ store = [t \in Tenants |-> <<>>]

LookupBook ==
  \E req \in LookupBookRequests :
    Len(store["salon-a"]) < MaxLookupAppts /\ BookAppointment("salon-a", req)

\* The clock moves on to a later instant.
LookupTick ==
  /\ \E instant \in LookupInstants : now < instant /\ now' = instant
  /\ UNCHANGED <<cfg, uniqueIndex, store, resp, pc, local, inp, out>>

LookupFind == \E req \in LookupFindRequests : FindAppointment("salon-a", req)

NextLookup == LookupBook \/ LookupTick \/ LookupFind

SpecLookup == InitLookup /\ [][NextLookup]_vars

\* The records of a tenant with an identifier.
WithIdentifier(t, docs, bookingId) ==
  {i \in 1..Len(docs) : docs[i].tenant_id = t /\ docs[i].booking_id = bookingId}

\* The records of a tenant with the canonical form of a phone number whose
\* date is on or after today minus 7 days, today being the date in Kuwait.
RecentWithPhone(t, docs, phone) ==
  {i \in 1..Len(docs) : /\ docs[i].tenant_id = t
                        /\ docs[i].phone_number = ValidatePhone(phone).formatted
                        /\ docs[i].date >= Today - 7}

\* A list of appointment details goes from later to earlier dates and, within
\* a date, from later to earlier times.
LaterFirst(list) ==
  \A i, j \in 1..Len(list) :
    i < j => \/ list[i].date.day > list[j].date.day
             \/ list[i].date.day = list[j].date.day /\ list[i].time >= list[j].time

(* C36: findAppointment with a booking_id returns exactly the one record of *)
(* the tenant with that identifier, or an error when there is none,         *)
(* whatever phone_number comes with it; with only a phone_number it returns *)
(* all the tenant's records with the canonical phone dated on or after      *)
(* today minus 7 days, later dates first and later times first within a     *)
(* date; with neither it returns an error.                                  *)
C36_Lookup ==
  [][\A req \in LookupFindRequests :
       FindAppointment("salon-a", req)
       => LET docs == store["salon-a"]
              byId == WithIdentifier("salon-a", docs, req.booking_id)
              byPhone == RecentWithPhone("salon-a", docs, req.phone_number)
              found == resp'.appointments
          IN CASE req.booking_id # NoId /\ byId = {}
                    -> ~resp'.ok /\ found = <<>>
               [] req.booking_id # NoId
                    -> /\ resp'.ok
                       /\ Cardinality(byId) = 1
                       /\ \A i \in byId : found = <<FormatAppointmentDetails(docs[i])>>
               [] req.phone_number # ""
                    -> /\ Len(found) = Cardinality(byPhone)
                       /\ {found[i] : i \in 1..Len(found)}
                            = {FormatAppointmentDetails(docs[i]) : i \in byPhone}
                       /\ LaterFirst(found)
               [] OTHER
                    -> ~resp'.ok /\ found = <<>>]_vars

-----------------------------------------------------------------------------
(* SpecTerm: the steps of single calls.  A call of getAvailableSlots runs   *)
(* its slot loop one iteration at a time and then waits for its find; the   *)
(* other operations have no loop and wait for their store calls one after   *)
(* the other.  The slot granularity is whatever the tenant file holds: the  *)
(* loader checks only that `settings` is present.  A loop that is still    *)
(* running after MaxTermSteps iterations exhausts the memory of the process.*)

\* slot_duration_minutes: absent, 15, 30 and -30.
TermGranularities == {0, 15, 30, 0 - 30}

TermServiceDurations == {30, 60}

\* The store calls an operation awaits on its longest path.
StoreCalls(op) ==
  CASE op = "getAvailableSlots" -> 1
    [] op = "isSlotAvailable"   -> 1
    [] op = "generateBookingId" -> 1
    [] op = "bookAppointment"   -> 3
    [] op = "updateAppointment" -> 4
    [] op = "cancelAppointment" -> 3

TermOps == {"isSlotAvailable", "generateBookingId", "bookAppointment",
            "updateAppointment", "cancelAppointment"}

\* The while loop has no await: while a call is in it no other call runs.
NoLoopBeside(p) == \A q \in Procs \ {p} : pc[q] # "loop"

\* getAvailableSlots is called for today: the variables of the loop are set.
TermSlotsCall(p) ==
  /\ pc[p] \in {"idle", "done"}
  /\ NoLoopBeside(p)
  /\ \E serviceDuration \in TermServiceDurations :
       LET workingHours == GetWorkingHours("salon-a", DayName(Today))
           slotDuration == OrDefault(LoadTenantConfig("salon-a").settings.slot_duration_minutes,
                                     DefaultSlotDuration)
       IN local' = [local EXCEPT ![p] =
                      [op |-> "getAvailableSlots",
                       currentTime |-> At(Today, workingHours.start),
                       lastSlotTime |-> At(Today, workingHours.end) - serviceDuration,
                       slotDuration |-> slotDuration,
                       iterations |-> 0]]
  /\ pc' = [pc EXCEPT ![p] = "loop"]
  /\ UNCHANGED <<cfg, now, uniqueIndex, store, resp, inp, out>>

\* One iteration of the while loop: slots.push(...); currentTime.add(slotDuration).
TermLoop(p) ==
  /\ pc[p] = "loop"
  /\ NoLoopBeside(p)
  /\ local[p].currentTime <= local[p].lastSlotTime
  /\ local[p].iterations < MaxTermSteps
  /\ local' = [local EXCEPT ![p].currentTime = @ + local[p].slotDuration,
                            ![p].iterations = @ + 1]
  /\ UNCHANGED <<cfg, now, uniqueIndex, store, resp, pc, inp, out>>

\* The slots array has outgrown the memory of the process (here after
\* MaxTermSteps iterations): the process ends, and no call in flight returns.
TermOutOfMemory(p) ==
  /\ pc[p] = "loop"
  /\ local[p].currentTime <= local[p].lastSlotTime
  /\ local[p].iterations = MaxTermSteps
  /\ pc' = [q \in Procs |-> "aborted"]
  /\ UNCHANGED <<cfg, now, uniqueIndex, store, resp, local, inp, out>>

\* The loop condition is false: the call goes on to its find.
TermLoopExit(p) ==
  /\ pc[p] = "loop"
  /\ NoLoopBeside(p)
  /\ local[p].currentTime > local[p].lastSlotTime
  /\ pc' = [pc EXCEPT ![p] = "await"]
  /\ local' = [local EXCEPT ![p] = [op |-> "getAvailableSlots",
                                    iterations |-> local[p].iterations,
                                    awaits |-> StoreCalls("getAvailableSlots")]]
  /\ UNCHANGED <<cfg, now, uniqueIndex, store, resp, inp, out>>

\* One of the other operations is called and waits for its first store call.
TermCall(p) ==
  /\ pc[p] \in {"idle", "done"}
  /\ NoLoopBeside(p)
  /\ \E op \in TermOps :
       local' = [local EXCEPT ![p] = [op |-> op, iterations |-> 0, awaits |-> StoreCalls(op)]]
  /\ pc' = [pc EXCEPT ![p] = "await"]
  /\ UNCHANGED <<cfg, now, uniqueIndex, store, resp, inp, out>>

\* A store call returns: the call goes on to its next store call or returns.
TermStoreReturn(p) ==
  /\ pc[p] = "await"
  /\ NoLoopBeside(p)
  /\ IF local[p].awaits > 1
     THEN /\ local' = [local EXCEPT ![p].awaits = @ - 1]
          /\ pc' = pc
     ELSE /\ local' = [local EXCEPT ![p] = [op |-> local[p].op, iterations |-> local[p].iterations]]
          /\ pc' = [pc EXCEPT ![p] = "done"]
  /\ UNCHANGED <<cfg, now, uniqueIndex, store, resp, inp, out>>

InitTerm ==
  /\ InitIdle
  /\ \E g \in TermGranularities :
       cfg = [t \in Tenants |-> TenantConfig(WeekHours, Settings(g, 1, 1, 1))]
  /\ uniqueIndex = TRUE
  /\ store = [t \in Tenants |-> <<>>]

NextTerm ==
  \E p \in Procs :
    \/ TermSlotsCall(p)
    \/ TermLoop(p)
    \/ TermOutOfMemory(p)
    \/ TermLoopExit(p)
    \/ TermCall(p)
    \/ TermStoreReturn(p)

SpecTerm == InitTerm /\ [][NextTerm]_vars

\* A loop that has started goes on, and every store call returns: its
\* continuation is queued and runs whenever no loop holds the thread.
SpecTermFair ==
  /\ SpecTerm
  /\ \A p \in Procs : /\ WF_vars(TermLoop(p))
                      /\ WF_vars(TermOutOfMemory(p))
                      /\ WF_vars(TermLoopExit(p))
                      /\ SF_vars(TermStoreReturn(p))

(* C37: every call of getAvailableSlots, isSlotAvailable,                   *)
(* generateBookingId, bookAppointment, updateAppointment and                *)
(* cancelAppointment reaches its result once each store call returns, for   *)
(* every configured slot granularity.                                       *)
C37_Termination ==
  \A p \in Procs : (pc[p] \in {"loop", "await"}) ~> (pc[p] = "done")

\* With a positive granularity g the loop makes at most
\* (closing - opening) / g + 1 iterations.
SlotLoopBound ==
  \A p \in Procs :
    (pc[p] # "idle" /\ local[p].op = "getAvailableSlots"
     /\ cfg["salon-a"].settings.slot_duration_minutes >= 0)
    => LET workingHours == GetWorkingHours("salon-a", DayName(Today))
           g == OrDefault(cfg["salon-a"].settings.slot_duration_minutes, DefaultSlotDuration)
       IN local[p].iterations <= (workingHours.end - workingHours.start) \div g + 1

====
